---- MODULE Spec2Model ----
(***************************************************************************)
(* A model of the circuits event manager (circuits/core/manager.py): the   *)
(* root event queue, the dispatcher, the task scheduler, handler           *)
(* resolution with its cache, and completion tracking.                     *)
(*                                                                         *)
(* Program state is kept in five variables (events, gens, mgr, frame,      *)
(* other); every operation of the manager is an operator from a state      *)
(* record S (the first three) to a state record, so that the sequential    *)
(* code of a method composes as nested applications.  frame is the thread  *)
(* that drives the manager, other a second thread.  hist is history only.  *)
(***************************************************************************)
EXTENDS Integers, Sequences, FiniteSets, TLC

VARIABLES events, gens, mgr, frame, other, hist

vars == <<events, gens, mgr, frame, other, hist>>

(***************************************************************************)
(* Bounds of the model.                                                    *)
(***************************************************************************)
NManagers == 2

Managers == 1..NManagers

(***************************************************************************)
(* Thread identities.  thread.get_ident() is an integer, current_thread()  *)
(* is a Thread object: the two are different values even for one thread.   *)
(***************************************************************************)
NoThread == <<"None", 0>>
get_ident(t) == <<"ident", t>>
current_thread(t) == <<"Thread", t>>
MainThread == "MainThread"
OtherThread == "OtherThread"

\* manager.py 33: the time to wait when idle with tasks, in milliseconds.
TIMEOUT == 100

\* Tuple order with the insertion count compared backwards.
TupleLt_newest(a, b) == a[1] < b[1] \/ (a[1] = b[1] /\ a[2] > b[2])

(***************************************************************************)
(* heapq on a Python list (index i of the list is heap[i + 1] here).       *)
(* Queue entries are (priority, count, event) tuples; tuple comparison is  *)
(* decided by the first two fields because counts are unique.              *)
(***************************************************************************)
TupleLt(a, b) == a[1] < b[1] \/ (a[1] = b[1] /\ a[2] < b[2])

RECURSIVE _siftdown(_, _, _, _)
_siftdown(heap, startpos, pos, newitem) ==
    IF pos > startpos
    THEN LET parentpos == (pos - 1) \div 2
             parentitem == heap[parentpos + 1]
         IN  IF TupleLt(newitem, parentitem)
             THEN _siftdown([heap EXCEPT ![pos + 1] = parentitem],
                            startpos, parentpos, newitem)
             ELSE [heap EXCEPT ![pos + 1] = newitem]
    ELSE [heap EXCEPT ![pos + 1] = newitem]

heappush(heap, item) ==
    LET h == Append(heap, item)
    IN  _siftdown(h, 0, Len(h) - 1, item)

RECURSIVE _siftup_loop(_, _, _)
_siftup_loop(heap, pos, endpos) ==
    LET childpos == 2 * pos + 1
    IN  IF childpos < endpos
        THEN LET rightpos == childpos + 1
                 c == IF rightpos < endpos
                         /\ ~TupleLt(heap[childpos + 1], heap[rightpos + 1])
                      THEN rightpos ELSE childpos
             IN  _siftup_loop([heap EXCEPT ![pos + 1] = heap[c + 1]], c, endpos)
        ELSE <<heap, pos>>

_siftup(heap, pos) ==
    LET newitem == heap[pos + 1]
        r == _siftup_loop(heap, pos, Len(heap))
    IN  _siftdown(r[1], pos, r[2], newitem)

\* heappop returns <<item, heap after the pop>>
heappop(heap) ==
    LET lastelt == heap[Len(heap)]
        rest == SubSeq(heap, 1, Len(heap) - 1)
    IN  IF rest # <<>>
        THEN <<rest[1], _siftup([rest EXCEPT ![1] = lastelt], 0)>>
        ELSE <<lastelt, rest>>

(***************************************************************************)
(* Events.  cause = 0 stands for "no cause attribute".  The fields by,     *)
(* prio, seq, dispatched, open, raised, res, inv and fresh are history:    *)
(* who fired the event, its queue key, whether its handlers have all been  *)
(* invoked, how many of its coroutine handlers are still alive, how many   *)
(* of its handlers or coroutines raised, the handlers resolved for it, the *)
(* handlers invoked for it with what they did, and whether the resolved    *)
(* list is one that resolution from scratch gives.  A success_channels or  *)
(* complete_channels of <<>> stands for an absent attribute.  thread is    *)
(* history too: the thread that fired the event.  time_left is the time    *)
(* budget of a generate_events event in milliseconds, negative for no      *)
(* limit.                                                                  *)
(***************************************************************************)
Event(cls, name, of) ==
    [cls |-> cls, name |-> name, of |-> of, channels |-> <<>>,
     complete |-> FALSE, success |-> FALSE, failure |-> FALSE,
     alert_done |-> FALSE, waitingHandlers |-> 0,
     cause |-> 0, effects |-> 0,
     errors |-> FALSE, value |-> "None", handler |-> 0,
     by |-> 0, prio |-> 0, seq |-> 0, dispatched |-> FALSE,
     stopped |-> FALSE, success_channels |-> <<>>, complete_channels |-> <<>>,
     open |-> 0, raised |-> 0, res |-> <<>>, inv |-> <<>>, fresh |-> TRUE,
     time_left |-> 0, thread |-> MainThread]

\* The application's event classes: name and completion flags.
AppEvent(name, complete, success, failure) ==
    [Event("app", name, 0) EXCEPT !.complete = complete, !.success = success,
                                  !.failure = failure]

\* Derived events, named <origin name>_<topic>.
DerivedEvent(topic, S, e) == Event(topic, S.events[e].name \o "_" \o topic, e)

done(S, e) == DerivedEvent("done", S, e)
success(S, e) == DerivedEvent("success", S, e)
complete(S, e) == DerivedEvent("complete", S, e)
failure(S, e) == DerivedEvent("failure", S, e)
error(S, h, e) == [Event("error", "error", e) EXCEPT !.handler = 0]
\* generate_events(lock, timeout) as tick() makes it: timeout is -1.
generate_events ==
    [Event("generate_events", "generate_events", 0) EXCEPT !.time_left = -1]
started == Event("started", "started", 0)
stopped == Event("stopped", "stopped", 0)

(***************************************************************************)
(* Managers.  Every Manager attribute is a field of mgr[m].  handlers is   *)
(* the _handlers dict as a set of <<name, handler>> pairs (a name with no  *)
(* pair is a deleted key); cache is the _cache dict as a function.         *)
(***************************************************************************)
Manager(m) ==
    [parent |-> m, root |-> m, components |-> {},
     handlers |-> {}, globals |-> {},
     cache |-> <<>>, cache_needs_refresh |-> FALSE,
     queue |-> <<>>, counter |-> 0, tasks |-> {}, flush_batch |-> 0,
     running |-> FALSE, executing_thread |-> NoThread,
     flushing_thread |-> NoThread, currently_handling |-> 0,
     lock |-> NoThread]

\* The channel attribute of component m (Component.channel defaults to "*").
channel(m) == IF m = 1 THEN "*" ELSE "a"

\* A handler: the attributes the handler decorator sets on the method, the
\* component the method is bound to, and for the handlers waitEvent
\* installs the generator whose state they share.
Handler(id, kind, names, chan, priority, filter, owner, w) ==
    [id |-> id, kind |-> kind, names |-> names, channel |-> chan,
     priority |-> priority, filter |-> filter, owner |-> owner, w |-> w]

FallBackGenerator == Handler(98, "fb_gen", {"generate_events"}, "*", 0, FALSE, 0, 0)
FallBackErrorHandler == Handler(99, "fb_err", {"error"}, "*", 0, FALSE, 0, 0)

\* A sort key with the priority negated.
_sortkey_negated(h) == <<0 - h.priority, h.filter>>

_sortkey(h) == <<h.priority, h.filter>>

\* Python's tuple order on (priority, filter) keys, False < True.
KeyLt(a, b) == a[1] < b[1] \/ (a[1] = b[1] /\ ~a[2] /\ b[2])

\* sorted(s, key=_sortkey, reverse=True): descending and stable.
RECURSIVE sorted_reverse(_)
sorted_reverse(s) ==
    IF s = <<>> THEN <<>>
    ELSE LET i == CHOOSE i \in 1..Len(s) :
                    /\ \A j \in 1..Len(s) : ~KeyLt(_sortkey(s[i]), _sortkey(s[j]))
                    /\ \A j \in 1..(i - 1) : KeyLt(_sortkey(s[j]), _sortkey(s[i]))
         IN  <<s[i]>> \o sorted_reverse(SubSeq(s, 1, i - 1) \o SubSeq(s, i + 1, Len(s)))

\* The orders in which a Python set may be iterated.
Perms(s) ==
    {f \in [1..Cardinality(s) -> s] : \A x \in s : \E i \in 1..Cardinality(s) : f[i] = x}

SelfChannel(m) == "@" \o ToString(m)

\* A getHandlers without the "channel is self" test of line 271.
RECURSIVE getHandlers_strings(_, _, _, _)
getHandlers_strings(S, self, name, chan) ==
    LET M == S.mgr[self]
        chained == {p[2] : p \in {q \in M.handlers : q[1] = "*" \/ q[1] = name}}
        handler_channel(h) ==
            IF h.channel = "None"
            THEN (IF h.owner \in Managers THEN channel(h.owner) ELSE "None")
            ELSE h.channel
        own == {h \in chained : chan = "*" \/ handler_channel(h) \in {"*", chan}}
    IN  own \cup M.globals
            \cup UNION {getHandlers_strings(S, c, name, chan) : c \in M.components}

RECURSIVE getHandlers(_, _, _, _)
getHandlers(S, self, name, chan) ==
    LET M == S.mgr[self]
        chained == {p[2] : p \in {q \in M.handlers : q[1] = "*" \/ q[1] = name}}
        handler_channel(h) ==
            IF h.channel = "None"
            THEN (IF h.owner \in Managers THEN channel(h.owner) ELSE "None")
            ELSE h.channel
        own == {h \in chained : \/ chan = "*"
                                \/ handler_channel(h) \in {"*", chan}
                                \/ chan = SelfChannel(self)}
    IN  own \cup M.globals
            \cup UNION {getHandlers(S, c, name, chan) : c \in M.components}

\* chain(*h) for h = (getHandlers(event, channel) for channel in channels),
\* under every iteration order of the sets.
RECURSIVE Chains(_, _, _, _)
Chains(S, self, name, chans) ==
    IF chans = <<>> THEN {<<>>}
    ELSE {p \o rest : p \in Perms(getHandlers(S, self, name, Head(chans))),
                      rest \in Chains(S, self, name, Tail(chans))}

\* The handler lists a cache miss may compute for event e (manager.py 512-519).
Resolved(S, self, e) ==
    LET ev == S.events[e]
        withFallback(hs) ==
            IF ev.cls = "generate_events" THEN Append(hs, FallBackGenerator)
            ELSE IF ev.cls = "error" /\ Len(hs) = 0 THEN <<FallBackErrorHandler>>
            ELSE hs
    IN  {withFallback(sorted_reverse(c)) : c \in Chains(S, self, ev.name, ev.channels)}

\* A dispatcher that resolves every time and keeps no cache.
CachedHandlers_uncached(S, self, e) == {<<S, hs>> : hs \in Resolved(S, self, e)}

\* The cache part of _dispatcher (manager.py 504-520): the set of
\* <<state, handlers>> outcomes.
CachedHandlers(S, self, e) ==
    LET S1 == IF S.mgr[self].cache_needs_refresh
              THEN [S EXCEPT !.mgr[self].cache = <<>>,
                             !.mgr[self].cache_needs_refresh = FALSE]
              ELSE S
        key == <<S.events[e].name, S.events[e].channels>>
        cache == S1.mgr[self].cache
    IN  IF key \in DOMAIN cache
        THEN {<<S1, cache[key]>>}
        ELSE {<<[S1 EXCEPT !.mgr[self].cache = (key :> hs) @@ cache], hs>> :
                 hs \in Resolved(S1, self, e)}

addHandler(S, self, h) ==
    LET S1 == IF h.names = {} /\ h.channel = "*"
              THEN [S EXCEPT !.mgr[self].globals = @ \cup {h}]
              ELSE IF h.names = {}
              THEN [S EXCEPT !.mgr[self].handlers = @ \cup {<<"*", h>>}]
              ELSE [S EXCEPT !.mgr[self].handlers = @ \cup {<<n, h>> : n \in h.names}]
    IN  [S1 EXCEPT !.mgr[S.mgr[self].root].cache_needs_refresh = TRUE]

\* removeHandler(method, event): names is method.names, or [event] when an
\* event name is given (given = TRUE).  Removing from a missing bucket or a
\* handler that is not in it raises KeyError before the flag is set.
removeHandlerRaises(S, self, h, given, name) ==
    LET names == IF given THEN {name} ELSE h.names
    IN  \E n \in names : <<n, h>> \notin S.mgr[self].handlers

removeHandler(S, self, h, given, name) ==
    LET names == IF given THEN {name} ELSE h.names
    IN  [S EXCEPT !.mgr[self].handlers = @ \ {<<n, h>> : n \in names},
                  !.mgr[S.mgr[self].root].cache_needs_refresh = TRUE]

(***************************************************************************)
(* The component tree.  registerChild and unregisterChild are the          *)
(* manager's; register and unregister are the component's, which splice    *)
(* the component into and out of a tree and give its subtree the new root. *)
(***************************************************************************)
RECURSIVE Subtree(_, _)
Subtree(S, c) == {c} \cup UNION {Subtree(S, k) : k \in S.mgr[c].components}

registerChildRaises(S, self, component) ==
    /\ S.mgr[component].executing_thread # NoThread
    /\ S.mgr[S.mgr[self].root].executing_thread # NoThread

\* A registerChild that raises after self.components.add(component).
registerChild_added(S, self, component) ==
    [S EXCEPT !.mgr[self].components = @ \cup {component}]

\* 319-321: the state registerChild leaves when it raises UnregistrableError;
\* the raise is the first statement it executes.
registerChild_raised(S, self, component) == S

registerChild(S, self, component) ==
    LET r == S.mgr[self].root
        S1 == IF S.mgr[component].executing_thread # NoThread
              THEN [S EXCEPT !.mgr[r].executing_thread = S.mgr[component].executing_thread,
                             !.mgr[component].executing_thread = NoThread]
              ELSE S
        S2 == [S1 EXCEPT !.mgr[self].components = @ \cup {component}]
        S3 == [S2 EXCEPT !.mgr[r].queue = @ \o S2.mgr[component].queue]
        S4 == [S3 EXCEPT !.mgr[component].queue = <<>>]
    IN  [S4 EXCEPT !.mgr[r].cache_needs_refresh = TRUE]

\* An unregisterChild that only marks the cache.
unregisterChild_kept(S, self, component) ==
    [S EXCEPT !.mgr[S.mgr[self].root].cache_needs_refresh = TRUE]

unregisterChild(S, self, component) ==
    [S EXCEPT !.mgr[self].components = @ \ {component},
              !.mgr[S.mgr[self].root].cache_needs_refresh = TRUE]

_updateRoot(S, c, root) ==
    [S EXCEPT !.mgr = [m \in DOMAIN S.mgr |->
                          IF m \in Subtree(S, c)
                          THEN [S.mgr[m] EXCEPT !.root = root]
                          ELSE S.mgr[m]]]

register(S, c, parent) ==
    LET S1 == [S EXCEPT !.mgr[c].parent = parent]
        S2 == registerChild(S1, parent, c)
    IN  _updateRoot(S2, c, S.mgr[parent].root)

unregister(S, c) ==
    LET S1 == unregisterChild(S, S.mgr[c].parent, c)
    IN  _updateRoot([S1 EXCEPT !.mgr[c].parent = c], c, c)

\* kill(x): the components of x are killed, then x is unregistered.
RECURSIVE kill(_, _), killAll(_, _)
killAll(S, cs) ==
    IF cs = {} THEN S
    ELSE LET c == CHOOSE k \in cs : TRUE
         IN  killAll(kill(S, c), cs \ {c})

kill(S, x) ==
    LET S1 == killAll(S, S.mgr[x].components)
    IN  IF S1.mgr[x].parent # x THEN unregister(S1, x) ELSE S1

(***************************************************************************)
(* Firing.                                                                 *)
(***************************************************************************)
\* generate_events.reduce_time_left(t): the time budget of e becomes t
\* unless it is smaller already.
reduce_time_left(S, e, t) ==
    IF t >= 0 /\ (S.events[e].time_left < 0 \/ S.events[e].time_left > t)
    THEN [S EXCEPT !.events[e].time_left = t]
    ELSE S

\* with self._lock: the lock of root r is free for thread t, or t's own.
LockFree(S, r, t) == S.mgr[r].lock \in {NoThread, get_ident(t)}

\* A _fire that never records cause and effects.
_fire_untracked(S, r, e, priority, t) ==
    [S EXCEPT !.mgr[r].queue = heappush(@, <<priority, S.mgr[r].counter, e>>),
              !.mgr[r].counter = @ + 1,
              !.events[e].prio = priority,
              !.events[e].seq = S.mgr[r].counter]

\* Manager._fire on the root r for the event with index e, called by thread t.
_fire(S, r, e, priority, t) ==
    LET M == S.mgr[r]
        th == IF M.executing_thread # NoThread THEN M.executing_thread
              ELSE M.flushing_thread
        handling == M.currently_handling
        push(SS) ==
            [SS EXCEPT !.mgr[r].queue = heappush(@, <<priority, M.counter, e>>),
                       !.mgr[r].counter = @ + 1,
                       !.events[e].prio = priority,
                       !.events[e].seq = M.counter]
    IN  IF get_ident(t) = th /\ S.events[e].cls # "signal"
        THEN IF handling # 0 /\ S.events[handling].cause # 0
             THEN push([S EXCEPT !.events[e].cause = handling,
                                 !.events[e].effects = 1,
                                 !.events[handling].effects = @ + 1])
             ELSE push(S)
        ELSE IF ~LockFree(S, r, t)
             THEN [S EXCEPT !.blocked = TRUE]
             ELSE IF handling # 0 /\ S.events[handling].cls = "generate_events"
             THEN reduce_time_left(push(S), handling, 0)
             ELSE push(S)

\* A fireEvent that sets the channels and the Value and enqueues nothing.
fireEvent_unqueued(S, self, ev, chans, priority, t) ==
    [S EXCEPT !.events = Append(@, [ev EXCEPT !.channels = <<channel(self)>>])]

\* Manager.fireEvent: the event object ev is given its channels and its
\* Value and handed to the root.  The new event's index is Len(S.events) + 1.
fireEvent(S, self, ev, chans, priority, t) ==
    LET channels == IF chans # <<>> THEN chans
                    ELSE IF ev.channels # <<>> THEN ev.channels
                    ELSE <<channel(self)>>
        e == Len(S.events) + 1
        S1 == [S EXCEPT !.events = Append(@, [ev EXCEPT !.channels = channels,
                                                        !.thread = t])]
    IN  _fire(S1, S.mgr[self].root, e, priority, t)

registerTask(S, self, task) ==
    [S EXCEPT !.mgr[S.mgr[self].root].tasks = @ \cup {task}]

\* An unregisterTask that leaves the task in the set.
unregisterTask_kept(S, self, task) == S

unregisterTask(S, self, task) ==
    [S EXCEPT !.mgr[S.mgr[self].root].tasks = @ \ {task}]

(***************************************************************************)
(* Manager._eventDone(event, err): err is TRUE when an error tuple is      *)
(* passed, FALSE for None.                                                 *)
(***************************************************************************)
RECURSIVE _eventDone_loop(_, _, _, _)
_eventDone_loop(S, self, e, t) ==
    LET cause == S.events[e].cause
    IN  IF cause = 0 THEN S
        ELSE LET S1 == [S EXCEPT !.events[e].effects = @ - 1]
             IN  IF S1.events[e].effects > 0 THEN S1
                 ELSE LET S2 == IF S1.events[e].complete
                                THEN fireEvent(S1, self, complete(S1, e),
                                               IF S1.events[e].complete_channels # <<>>
                                               THEN S1.events[e].complete_channels
                                               ELSE S1.events[e].channels, 0, t)
                                ELSE S1
                          S3 == [S2 EXCEPT !.events[e].cause = 0,
                                           !.events[e].effects = 0]
                      IN  _eventDone_loop(S3, self, cause, t)

\* An _eventDone without the test of waitingHandlers (581-582).
_eventDone_early(S, self, e, err, t) ==
    LET S1 == IF S.events[e].alert_done
              THEN fireEvent(S, self, done(S, e), S.events[e].channels, 0, t)
              ELSE S
    IN  _eventDone_loop(S1, self, e, t)

_eventDone(S, self, e, err, t) ==
    IF S.events[e].waitingHandlers # 0 THEN S
    ELSE LET S1 == IF S.events[e].alert_done
                   THEN fireEvent(S, self, done(S, e), S.events[e].channels, 0, t)
                   ELSE S
             S2 == IF ~err /\ S1.events[e].success
                   THEN fireEvent(S1, self, success(S1, e),
                                  IF S1.events[e].success_channels # <<>>
                                  THEN S1.events[e].success_channels
                                  ELSE S1.events[e].channels, 0, t)
                   ELSE S1
         IN  _eventDone_loop(S2, self, e, t)

(***************************************************************************)
(* Manager.stop, without the three ticks it pumps when the root has no     *)
(* executing thread: StopPumps says when the caller has to run them.       *)
(***************************************************************************)
StopPumps(S, self) ==
    S.mgr[self].running /\ S.mgr[S.mgr[self].root].executing_thread = NoThread

\* stop() that returns at once whatever the running flag says.
stop_ignored(S, self, t) == S

stop(S, self, t) ==
    IF ~S.mgr[self].running THEN S
    ELSE fireEvent([S EXCEPT !.mgr[self].running = FALSE], self, stopped, <<>>, 0, t)

(***************************************************************************)
(* The state of the model.  frame is the position of the thread that       *)
(* drives the manager: pc says where it is (idle: outside the manager;     *)
(* tasks: in tick's task loop; task, send: inside a stepped coroutine;     *)
(* flush: in _flush's loop; handlers: in _dispatcher's loop; body: inside  *)
(* a handler; runloop: in run's loop), and the other fields are the        *)
(* locals of the calls in progress.                                        *)
(***************************************************************************)
NoHandler == Handler(0, "none", {}, "None", 0, FALSE, 0, 0)

Idle ==
    [pc |-> "idle", m |-> 0, ev |-> 0, todo |-> <<>>, h |-> NoHandler,
     value |-> <<"None", 0>>, err |-> FALSE, old_flushing |-> NoThread,
     task |-> <<0, 0, 0>>, taskTodo |-> {}, after |-> "idle",
     run |-> "none", left |-> 0]

\* The second thread: where it is in its call of fire or stop (idle:
\* outside the manager), the event it is firing with its priority, and its
\* local variable handling.
OtherIdle == [pc |-> "idle", m |-> 0, ev |-> 0, priority |-> 0, handling |-> 0]

\* blocked says that the step met a lock that another thread holds: such a
\* step waits, it cannot be taken.
Cur == [events |-> events, gens |-> gens, mgr |-> mgr, blocked |-> FALSE]

CommitAs(S, o) ==
    /\ ~S.blocked
    /\ events' = S.events /\ gens' = S.gens /\ mgr' = S.mgr /\ other' = o

Commit(S) == CommitAs(S, other)

\* addHandler for every handler of hs, on the component it is bound to.
InitMgr(hs) ==
    [m \in Managers |->
        [Manager(m) EXCEPT !.handlers =
            UNION {{<<n, h>> : n \in h.names} : h \in {x \in hs : x.owner = m}}]]

\* The state after construction, with the application's handlers hs added;
\* the model stops after fires calls of fire by the application, ngens
\* generators and ticks generate_events events.
InitWith(hs, fires, ngens, ticks) ==
    /\ events = <<>>
    /\ gens = <<>>
    /\ mgr = InitMgr(hs)
    /\ frame = Idle
    /\ other = OtherIdle
    /\ hist = [log |-> <<>>, starts |-> <<>>,
               fires |-> fires, gens |-> ngens, ticks |-> ticks]

(***************************************************************************)
(* Operations called from outside the manager.                             *)
(***************************************************************************)
\* self.fire(ev, priority=p) by the application, outside any handler.
UserFire(m, ev, p) ==
    /\ frame.pc = "idle"
    /\ hist.fires > 0
    /\ Commit(fireEvent(Cur, m, ev, <<>>, p, MainThread))
    /\ hist' = [hist EXCEPT !.fires = @ - 1]
    /\ UNCHANGED frame

\* The events in a queue.
Queued(q) == {q[i][3] : i \in 1..Len(q)}

\* _flush, manager.py 473-477: entering the loop.
FlushEnter(F, r, t, after) ==
    /\ Commit([Cur EXCEPT !.mgr[r].flushing_thread = get_ident(t),
                          !.mgr[r].flush_batch =
                              IF @ = 0 THEN Len(mgr[r].queue) ELSE @])
    /\ frame' = [F EXCEPT !.pc = "flush", !.m = r, !.after = after,
                          !.old_flushing = mgr[r].flushing_thread]

\* self.flush() by the application.
UserFlush(m) ==
    /\ frame.pc = "idle"
    /\ mgr[mgr[m].root].queue # <<>>
    /\ FlushEnter(frame, mgr[m].root, MainThread, "idle")
    /\ hist' = [hist EXCEPT !.starts = Append(@, Queued(mgr[mgr[m].root].queue))]

\* The end of tick(): back to the caller, which is run() or the application.
AfterTick(F) ==
    IF F.run = "none" THEN Idle ELSE [F EXCEPT !.pc = "runloop"]

\* _flush, manager.py 478-483: the loop is over.
FlushEnd ==
    /\ frame.pc = "flush"
    /\ mgr[frame.m].flush_batch = 0
    /\ Commit([Cur EXCEPT !.mgr[frame.m].flushing_thread = frame.old_flushing])
    /\ frame' = IF frame.after = "tick" THEN AfterTick(frame) ELSE Idle
    /\ UNCHANGED hist

\* Lines 522-529 with the pointer set and the time budget left alone.
_dispatcher_unchecked(S, r, e) == [S EXCEPT !.mgr[r].currently_handling = e]

\* _dispatcher 522-529, with the lock held: the generate_events event e
\* becomes the one being handled and is given its time budget.
_dispatcher_locked(S, r, e) ==
    LET S1 == [S EXCEPT !.mgr[r].currently_handling = e]
    IN  IF S.mgr[r].flush_batch > 0 \/ S.mgr[r].queue # <<>> \/ ~S.mgr[r].running
        THEN reduce_time_left(S1, e, 0)
        ELSE IF S.mgr[r].tasks # {}
        THEN reduce_time_left(S1, e, TIMEOUT)
        ELSE S1

\* _flush 479-481 and _dispatcher 496-536: pop an event, resolve its handlers.
\* For a generate_events event the thread stops at line 523 (pc "locking")
\* when another thread holds the lock.
DispatchBegin ==
    /\ frame.pc = "flush"
    /\ mgr[frame.m].flush_batch > 0
    /\ mgr[frame.m].queue # <<>>
    /\ LET r == frame.m
           popped == heappop(mgr[r].queue)
           e == popped[1][3]
           S1 == [Cur EXCEPT !.mgr[r].flush_batch = @ - 1,
                             !.mgr[r].queue = popped[2]]
           S2 == IF S1.events[e].complete
                 THEN [S1 EXCEPT !.events[e].cause = IF @ = 0 THEN e ELSE @,
                                 !.events[e].effects = 1]
                 ELSE S1
           ge == S2.events[e].cls = "generate_events"
           free == LockFree(S2, r, MainThread)
       IN  \E ch \in CachedHandlers(S2, r, e) :
             LET S3 == [ch[1] EXCEPT !.events[e].res = [i \in 1..Len(ch[2]) |-> ch[2][i].id],
                                     !.events[e].fresh = (ch[2] \in Resolved(S2, r, e))]
             IN  /\ Commit(IF ~ge THEN [S3 EXCEPT !.mgr[r].currently_handling = e]
                           ELSE IF free THEN _dispatcher_locked(S3, r, e)
                           ELSE S3)
                 /\ frame' = [frame EXCEPT !.pc = IF ge /\ ~free THEN "locking"
                                                  ELSE "handlers",
                                           !.ev = e, !.todo = ch[2],
                                           !.value = <<"None", 0>>, !.err = FALSE]
                 /\ hist' = [hist EXCEPT !.log = Append(@, e)]

\* _dispatcher 523-529, once the other thread has released the lock.
DispatchLocked ==
    /\ frame.pc = "locking"
    /\ LockFree(Cur, frame.m, MainThread)
    /\ Commit(_dispatcher_locked(Cur, frame.m, frame.ev))
    /\ frame' = [frame EXCEPT !.pc = "handlers"]
    /\ UNCHANGED hist

\* A test of the value that only None fails.
Truthy_notNone(value) == value[1] # "None"

Truthy(value) == value[1] \in {"T", "err", "gen"}

\* _dispatcher 545-572: what follows the call of handler F.h, which returned
\* out ("None", "T", "F", or "gen" with the generator g), raised ("raise")
\* or raised a termination signal ("term").
AfterHandler(S, F, out, g, t) ==
    LET r == F.m
        e == F.ev
        S1 == CASE out = "term" -> stop(S, r, t)
                [] out = "raise" ->
                     LET Sa == [S EXCEPT !.events[e].errors = TRUE,
                                         !.events[e].raised = @ + 1]
                         Sb == IF Sa.events[e].failure
                               THEN fireEvent(Sa, r, failure(Sa, e),
                                              Sa.events[e].channels, 0, t)
                               ELSE Sa
                     IN  fireEvent(Sb, r, error(Sb, F.h, e), <<>>, 0, t)
                [] OTHER -> S
        value == CASE out = "term" -> F.value
                   [] out = "raise" -> <<"err", 0>>
                   [] out = "gen" -> <<"gen", g>>
                   [] OTHER -> <<out, 0>>
        S2 == IF value[1] = "None" THEN S1
              ELSE IF value[1] = "gen"
              THEN registerTask([S1 EXCEPT !.events[e].waitingHandlers = @ + 1],
                                r, <<e, value[2], 0>>)
              ELSE [S1 EXCEPT !.events[e].value = value[1]]
        brk == (value[1] # "None" /\ F.h.filter /\ Truthy(value))
               \/ S2.events[e].stopped
    IN  <<[S2 EXCEPT !.events[e].inv = Append(@, <<F.h, out>>)],
          [F EXCEPT !.pc = "handlers", !.value = value,
                    !.err = F.err \/ out = "raise",
                    !.todo = IF brk THEN <<>> ELSE Tail(@)]>>

\* _dispatcher 538-544: the next handler, an application handler, is called.
HandlerCall ==
    /\ frame.pc = "handlers"
    /\ frame.todo # <<>>
    /\ Head(frame.todo).kind = "app"
    /\ Commit([Cur EXCEPT !.events[frame.ev].handler = Head(frame.todo).id])
    /\ frame' = [frame EXCEPT !.pc = "body", !.h = Head(frame.todo)]
    /\ UNCHANGED hist

\* The running handler or coroutine (of the event by) fires an event.
BodyFire(ev, p) ==
    /\ frame.pc \in {"body", "task", "send"}
    /\ hist.fires > 0
    /\ LET by == IF frame.pc = "body" THEN frame.ev ELSE frame.task[1]
       IN  Commit(fireEvent(Cur, frame.m, [ev EXCEPT !.by = by], <<>>, p, MainThread))
    /\ hist' = [hist EXCEPT !.fires = @ - 1]
    /\ UNCHANGED frame

\* A new generator object of the application, made by a handler of event e.
AppGen(e) ==
    [kind |-> "app", pc |-> "live", ev |-> e, name |-> "", channels |-> <<>>,
     timeout |-> -1, run |-> FALSE, flag |-> FALSE, event |-> 0,
     task_event |-> 0, task |-> 0, parent |-> 0, fired |-> 0,
     arg |-> Event("none", "", 0), owner |-> 0, asked |-> -1, gticks |-> 0]

\* The running handler returns None, a truthy or a falsy value, raises an
\* exception or raises a termination signal.
HandlerReturn(out) ==
    /\ frame.pc = "body"
    /\ out \in {"None", "T", "F", "raise", "term"}
    /\ LET r == AfterHandler(Cur, frame, out, 0, MainThread)
       IN  Commit(r[1]) /\ frame' = r[2]
    /\ UNCHANGED hist

\* The running handler is a generator function: calling it returns a new
\* generator.
HandlerReturnGen ==
    /\ frame.pc = "body"
    /\ hist.gens > 0
    /\ LET g == Len(gens) + 1
           S1 == [Cur EXCEPT !.gens = Append(@, AppGen(frame.ev)),
                             !.events[frame.ev].open = @ + 1]
           r == AfterHandler(S1, frame, "gen", g, MainThread)
       IN  Commit(r[1]) /\ frame' = r[2]
    /\ hist' = [hist EXCEPT !.gens = @ - 1]

\* _dispatcher 574-578: all handlers have been called.
DispatchEnd ==
    /\ frame.pc = "handlers"
    /\ frame.todo = <<>>
    /\ LET r == frame.m
           e == frame.ev
           S1 == [Cur EXCEPT !.mgr[r].currently_handling = 0,
                             !.events[e].dispatched = TRUE,
                             !.gens = [g \in DOMAIN gens |->
                                 IF events[e].cls = "generate_events"
                                    /\ gens[g].pc = "waiting"
                                 THEN [gens[g] EXCEPT !.gticks = @ + 1]
                                 ELSE gens[g]]]
       IN  Commit(_eventDone(S1, r, e, frame.err, MainThread))
    /\ frame' = [frame EXCEPT !.pc = "flush", !.ev = 0, !.h = NoHandler,
                              !.value = <<"None", 0>>, !.err = FALSE]
    /\ UNCHANGED hist

(***************************************************************************)
(* waitEvent and callEvent.  A generator made by wait(name, channel,       *)
(* timeout=n) or call(ev, timeout=n) is a record: run, flag, event,        *)
(* timeout, task_event, task and parent are the state dict; pc is where    *)
(* the generator is suspended; asked and gticks are history, the timeout   *)
(* it was made with and the number of generate_events events dispatched    *)
(* while it waits.                                                         *)
(***************************************************************************)
WaitGen(self, name, chans, timeout) ==
    [AppGen(0) EXCEPT !.kind = "wait", !.pc = "new", !.name = name,
                      !.channels = chans, !.timeout = timeout, !.asked = timeout,
                      !.owner = self]

CallGen(self, ev, timeout) ==
    [AppGen(0) EXCEPT !.kind = "call", !.pc = "new", !.arg = ev,
                      !.timeout = timeout, !.asked = timeout, !.owner = self]

\* The handlers waitEvent installs (manager.py 433-440); with no channel
\* given the channel is None.
WaitChannel(G) == IF G.channels = <<>> THEN "None" ELSE G.channels[Len(G.channels)]
_on_event_handler(G, g) ==
    Handler(100 + 3 * g, "on_event", {G.name}, WaitChannel(G), 0, FALSE, G.owner, g)
_on_done_handler(G, g) ==
    Handler(101 + 3 * g, "on_done", {G.name \o "_done"}, WaitChannel(G), 0, FALSE, G.owner, g)
_on_tick_handler(G, g) ==
    Handler(102 + 3 * g, "on_tick", {"generate_event"}, WaitChannel(G), 0, FALSE, G.owner, g)

\* next(g) for a wait or call generator g: <<state, result>>, the result
\* being <<"state", g>>, <<"CallValue", event>>, <<"StopIteration", 0>> or
\* <<"raise", 0>> (a KeyError of removeHandler).
waitEvent_start(S, g, t) ==
    LET G0 == S.gens[g]
        self == G0.owner
        S1 == IF G0.kind = "call"
              THEN LET Sf == fireEvent(S, self, G0.arg, <<>>, 0, t)
                       e == Len(Sf.events)
                   IN  [Sf EXCEPT !.gens[g].fired = e,
                                  !.gens[g].name = Sf.events[e].name,
                                  !.gens[g].channels = Sf.events[e].channels]
              ELSE S
        G == S1.gens[g]
        S2 == addHandler(S1, self, _on_event_handler(G, g))
        S3 == addHandler(S2, self, _on_done_handler(G, g))
        S4 == IF G.timeout >= 0 THEN addHandler(S3, self, _on_tick_handler(G, g)) ELSE S3
    IN  <<[S4 EXCEPT !.gens[g].pc = "waiting"], <<"state", g>>>>

waitEvent_resume(S, g) ==
    LET G == S.gens[g]
        self == G.owner
        hd == _on_done_handler(G, g)
        ht == _on_tick_handler(G, g)
        dname == G.name \o "_done"
    IN  IF removeHandlerRaises(S, self, hd, TRUE, dname)
        THEN <<[S EXCEPT !.gens[g].pc = "dead"], <<"raise", 0>>>>
        ELSE LET S1 == removeHandler(S, self, hd, TRUE, dname)
             IN  IF G.timeout >= 0 /\ removeHandlerRaises(S1, self, ht, TRUE, "generate_event")
                 THEN <<[S1 EXCEPT !.gens[g].pc = "dead"], <<"raise", 0>>>>
                 ELSE LET S2 == IF G.timeout >= 0
                                THEN removeHandler(S1, self, ht, TRUE, "generate_event")
                                ELSE S1
                      IN  IF G.event # 0
                          THEN <<[S2 EXCEPT !.gens[g].pc = "yielded"], <<"CallValue", G.event>>>>
                          ELSE IF G.kind = "call"
                          THEN <<[S2 EXCEPT !.gens[g].pc = "last"], <<"CallValue", G.fired>>>>
                          ELSE <<[S2 EXCEPT !.gens[g].pc = "dead"], <<"StopIteration", 0>>>>

GenNext(S, g, t) ==
    LET G == S.gens[g]
    IN  CASE G.pc = "new" -> waitEvent_start(S, g, t)
          [] G.pc = "waiting" -> waitEvent_resume(S, g)
          [] G.pc = "yielded" /\ G.kind = "call" ->
                <<[S EXCEPT !.gens[g].pc = "last"], <<"CallValue", G.fired>>>>
          [] OTHER -> <<[S EXCEPT !.gens[g].pc = "dead"], <<"StopIteration", 0>>>>

\* The bodies of the handlers waitEvent installs (manager.py 409-428):
\* <<state, "None" or "raise">>.
_on_event(S, h, e) ==
    LET g == h.w
    IN  IF S.gens[g].run THEN <<S, "None">>
        ELSE IF removeHandlerRaises(S, h.owner, h, TRUE, S.gens[g].name)
        THEN <<S, "raise">>
        ELSE <<[removeHandler(S, h.owner, h, TRUE, S.gens[g].name)
                   EXCEPT !.events[e].alert_done = TRUE,
                          !.gens[g].run = TRUE,
                          !.gens[g].event = e], "None">>

_on_done(S, h, e) ==
    LET g == h.w
        G == S.gens[g]
    IN  IF G.event = S.events[e].of
        THEN <<registerTask([S EXCEPT !.gens[g].flag = TRUE], h.owner,
                            <<G.task_event, G.task, G.parent>>), "None">>
        ELSE <<S, "None">>

_on_tick(S, h, e) ==
    LET g == h.w
        G == S.gens[g]
        S1 == IF G.timeout = 0
              THEN registerTask(S, h.owner, <<G.task_event, G.task, G.parent>>)
              ELSE S
    IN  <<[S1 EXCEPT !.gens[g].timeout = @ - 1], "None">>

(***************************************************************************)
(* processTask (manager.py 676-736), by what next(task) gave.              *)
(***************************************************************************)
\* 723-736: the bare except.
processTask_except(S, self, task, t) ==
    LET e == task[1]
        S1 == unregisterTask(S, self, <<e, task[2], 0>>)
        S2 == [S1 EXCEPT !.events[e].value = "err", !.events[e].errors = TRUE]
        S3 == IF S2.events[e].failure
              THEN fireEvent(S2, self, failure(S2, e), S2.events[e].channels, 0, t)
              ELSE S2
    IN  fireEvent(S3, self, error(S3, NoHandler, e), <<>>, 0, t)

\* 713-720: StopIteration.
processTask_stop(S, self, task, t) ==
    LET e == task[1]
        S1 == unregisterTask([S EXCEPT !.events[e].waitingHandlers = @ - 1], self, task)
    IN  IF task[3] # 0 THEN registerTask(S1, self, <<e, task[3], 0>>)
        ELSE IF S1.events[e].waitingHandlers = 0 THEN _eventDone(S1, self, e, FALSE, t)
        ELSE S1

\* task_state = next(value); task_state[...] = ... (691-694, 704-707)
processTask_nested(S, self, e, value, parent, t) ==
    LET r == GenNext(S, value, t)
    IN  [r[1] EXCEPT !.gens[value].task_event = e,
                     !.gens[value].task = value,
                     !.gens[value].parent = parent]

\* res is what next(task) did: <<"None", 0>>, <<"val", 0>>, <<"gen", g>>,
\* <<"CallValue", v>> with no parent to send to, <<"StopIteration", 0>>,
\* <<"raise", 0>> or <<"term", 0>>.
processTask(S, self, task, res, t) ==
    LET e == task[1]
    IN  CASE res[1] = "CallValue" ->
               \* parent is None: parent.send raises AttributeError
               processTask_except(unregisterTask(S, self, task), self, task, t)
          [] res[1] = "gen" ->
               processTask_nested(
                   unregisterTask([S EXCEPT !.events[e].waitingHandlers = @ + 1],
                                  self, <<e, task[2], 0>>),
                   self, e, res[2], task[2], t)
          [] res[1] = "val" -> [S EXCEPT !.events[e].value = "val"]
          [] res[1] = "StopIteration" -> processTask_stop(S, self, task, t)
          [] res[1] = "term" -> stop(S, self, t)
          [] res[1] = "raise" -> processTask_except(S, self, task, t)
          [] OTHER -> S

\* 684-699: res is what parent.send(value.value) did.
processTask_send(S, self, task, res, t) ==
    LET e == task[1]
    IN  CASE res[1] = "gen" -> processTask_nested(S, self, e, res[2], task[3], t)
          [] res[1] = "StopIteration" -> processTask_stop(S, self, task, t)
          [] res[1] = "term" -> stop(S, self, t)
          [] res[1] = "raise" -> processTask_except(S, self, task, t)
          [] OTHER ->
               registerTask([S EXCEPT !.events[e].waitingHandlers = @ - 1,
                                      !.events[e].value =
                                          IF res[1] = "None" THEN @ ELSE res[1]],
                            self, <<e, task[3], 0>>)

(***************************************************************************)
(* tick and the task loop.                                                 *)
(***************************************************************************)
\* A tick that takes no task to step.
TickBegin_none(F, m) ==
    /\ mgr[m].running => hist.ticks > 0
    /\ frame' = [F EXCEPT !.pc = "tasks", !.m = m, !.taskTodo = {}]

\* tick, manager.py 753-755: self._tasks.copy() is what gets stepped.
TickBegin(F, m) ==
    /\ mgr[m].running => hist.ticks > 0
    /\ frame' = [F EXCEPT !.pc = "tasks", !.m = m, !.taskTodo = mgr[m].tasks]

\* self.tick() by the application.
UserTick(m) ==
    /\ frame.pc = "idle"
    /\ mgr[m].tasks # {} \/ mgr[m].queue # <<>>
    /\ TickBegin(frame, m)
    /\ UNCHANGED <<events, gens, mgr, other, hist>>

Raised(S, e, res) ==
    IF res[1] = "raise" THEN [S EXCEPT !.events[e].raised = @ + 1] ELSE S

\* processTask(*task) for the next task of the copy.  A live generator of
\* the application is entered (pc "task"); a generator of waitEvent or
\* callEvent, or a finished one, is stepped here, and if it yields a
\* CallValue the parent is entered with it (pc "send").
TaskStep(task) ==
    /\ frame.pc = "tasks"
    /\ task \in frame.taskTodo
    /\ LET g == task[2]
           F == [frame EXCEPT !.taskTodo = @ \ {task}, !.task = task]
       IN  IF gens[g].kind = "app" /\ gens[g].pc = "live"
           THEN /\ frame' = [F EXCEPT !.pc = "task"]
                /\ UNCHANGED <<events, gens, mgr, other>>
           ELSE LET r == GenNext(Cur, g, MainThread)
                    res == r[2]
                IN  IF res[1] = "CallValue" /\ task[3] # 0
                    THEN /\ Commit(unregisterTask(r[1], frame.m, task))
                         /\ frame' = [F EXCEPT !.pc = "send", !.value = res]
                    ELSE /\ Commit(processTask(Raised(r[1], task[1], res),
                                               frame.m, task, res, MainThread))
                         /\ frame' = F
    /\ UNCHANGED hist

\* What the body of a generator of the application does when it is resumed:
\* it yields None, a value or a CallValue, returns, raises, or raises a
\* termination signal.  G is the generator that ran.
Resumed(S, G, out) ==
    IF out \in {"StopIteration", "raise", "term"}
    THEN [S EXCEPT !.gens[G].pc = "dead", !.events[S.gens[G].ev].open = @ - 1]
    ELSE S

BodyOutcomes == {"None", "val", "CallValue", "StopIteration", "raise", "term"}

\* 679: next(task) returns or raises.
TaskYield(out) ==
    /\ frame.pc = "task"
    /\ out \in BodyOutcomes
    /\ LET task == frame.task
           res == <<out, 0>>
           S1 == Raised(Resumed(Cur, task[2], out), task[1], res)
       IN  Commit(processTask(S1, frame.m, task, res, MainThread))
    /\ frame' = [frame EXCEPT !.pc = "tasks"]
    /\ UNCHANGED hist

\* 684: parent.send(value.value) returns or raises.
SendYield(out) ==
    /\ frame.pc = "send"
    /\ out \in BodyOutcomes
    /\ LET task == frame.task
           res == <<out, 0>>
           S1 == Raised(Resumed(Cur, task[3], out), task[1], res)
       IN  Commit(processTask_send(S1, frame.m, task, res, MainThread))
    /\ frame' = [frame EXCEPT !.pc = "tasks", !.value = <<"None", 0>>]
    /\ UNCHANGED hist

\* The resumed generator yields self.wait(name, timeout=n) or
\* self.call(ev, timeout=n): a new generator, stepped once by processTask.
BodyYieldGen(G) ==
    /\ frame.pc \in {"task", "send"}
    /\ hist.gens > 0
    /\ G.kind = "call" => hist.fires > 0
    /\ LET task == frame.task
           g == Len(gens) + 1
           S1 == [Cur EXCEPT !.gens = Append(@, [G EXCEPT !.arg.by = task[1]])]
       IN  Commit(IF frame.pc = "task"
                  THEN processTask(S1, frame.m, task, <<"gen", g>>, MainThread)
                  ELSE processTask_send(S1, frame.m, task, <<"gen", g>>, MainThread))
    /\ frame' = [frame EXCEPT !.pc = "tasks", !.value = <<"None", 0>>]
    /\ hist' = [hist EXCEPT !.gens = @ - 1,
                            !.fires = IF G.kind = "call" THEN @ - 1 ELSE @]

\* tick, manager.py 757-760, once the task loop is over.
TickFlush ==
    /\ frame.pc = "tasks"
    /\ frame.taskTodo = {}
    /\ LET m == frame.m
           S1 == IF mgr[m].running
                 THEN fireEvent(Cur, m, generate_events, <<"*">>, 0, MainThread)
                 ELSE Cur
           r == S1.mgr[m].root
       IN  /\ hist' = [hist EXCEPT
                          !.ticks = IF mgr[m].running THEN @ - 1 ELSE @,
                          !.starts = IF S1.mgr[m].queue # <<>>
                                     THEN Append(@, Queued(S1.mgr[r].queue)) ELSE @]
           /\ IF S1.mgr[m].queue # <<>>
              THEN /\ Commit([S1 EXCEPT !.mgr[r].flushing_thread = get_ident(MainThread),
                                        !.mgr[r].flush_batch =
                                            IF @ = 0 THEN Len(S1.mgr[r].queue) ELSE @])
                   /\ frame' = [frame EXCEPT !.pc = "flush", !.m = r, !.after = "tick",
                                             !.old_flushing = S1.mgr[r].flushing_thread]
              ELSE /\ Commit(S1)
                   /\ frame' = AfterTick(frame)

\* _dispatcher 538-572 for a handler that waitEvent installed, or a
\* fallback handler: the call and what follows it.  The fallback generator
\* sleeps for the time budget of the event (pc "wait") unless that is zero.
HandlerCallInternal ==
    /\ frame.pc = "handlers"
    /\ frame.todo # <<>>
    /\ Head(frame.todo).kind # "app"
    /\ LET h == Head(frame.todo)
           e == frame.ev
           S0 == [Cur EXCEPT !.events[e].handler = h.id]
           b == CASE h.kind = "on_event" -> _on_event(S0, h, e)
                  [] h.kind = "on_done" -> _on_done(S0, h, e)
                  [] h.kind = "on_tick" -> _on_tick(S0, h, e)
                  [] OTHER -> <<S0, "None">>
           r == AfterHandler(b[1], [frame EXCEPT !.h = h], b[2], 0, MainThread)
       IN  IF h.kind = "fb_gen" /\ events[e].time_left # 0
           THEN Commit(S0) /\ frame' = [frame EXCEPT !.pc = "wait", !.h = h]
           ELSE Commit(r[1]) /\ frame' = r[2]
    /\ UNCHANGED hist

\* The fallback generator's sleep ends: the time budget was reduced to zero
\* (the sleeper is woken) or, if it is positive, it has elapsed.
FallBackReturn ==
    /\ frame.pc = "wait"
    /\ events[frame.ev].time_left >= 0
    /\ LET r == AfterHandler(Cur, frame, "None", 0, MainThread)
       IN  Commit(r[1]) /\ frame' = r[2]
    /\ UNCHANGED hist

(***************************************************************************)
(* A second thread calls fire or stop.  Its fire takes the branch of _fire *)
(* for another thread (manager.py 345-364): acquire the lock and read      *)
(* _currently_handling, push, reduce the time budget and release.          *)
(***************************************************************************)
\* fireEvent up to the call of _fire, and the test at line 335.
OtherEnter(S, m, ev, p) ==
    LET r == S.mgr[m].root
        th == IF S.mgr[r].executing_thread # NoThread THEN S.mgr[r].executing_thread
              ELSE S.mgr[r].flushing_thread
        e == Len(S.events) + 1
    IN  IF get_ident(OtherThread) = th /\ ev.cls # "signal"
        THEN CommitAs(fireEvent(S, m, ev, <<>>, p, OtherThread), OtherIdle)
        ELSE CommitAs([S EXCEPT !.events = Append(@, [ev EXCEPT
                                     !.channels = <<channel(m)>>,
                                     !.thread = OtherThread])],
                      [pc |-> "acquire", m |-> r, ev |-> e, priority |-> p,
                       handling |-> 0])

\* self.fire(ev, priority=p) by the other thread.
OtherFire(m, ev, p) ==
    /\ other.pc = "idle"
    /\ hist.fires > 0
    /\ OtherEnter(Cur, m, ev, p)
    /\ hist' = [hist EXCEPT !.fires = @ - 1]
    /\ UNCHANGED frame

\* manager.py 351-359: with self._lock, handling = self._currently_handling.
OtherAcquire ==
    /\ other.pc = "acquire"
    /\ LockFree(Cur, other.m, OtherThread)
    /\ CommitAs([Cur EXCEPT !.mgr[other.m].lock = get_ident(OtherThread)],
                [other EXCEPT !.pc = "push",
                              !.handling = mgr[other.m].currently_handling])
    /\ UNCHANGED <<frame, hist>>

\* manager.py 361 or 364: heappush(self._queue, ...).
OtherPush ==
    /\ other.pc = "push"
    /\ LET r == other.m
           e == other.ev
       IN  CommitAs([Cur EXCEPT !.mgr[r].queue =
                                    heappush(@, <<other.priority, mgr[r].counter, e>>),
                                !.mgr[r].counter = @ + 1,
                                !.events[e].prio = other.priority,
                                !.events[e].seq = mgr[r].counter],
                    [other EXCEPT !.pc = "reduce"])
    /\ UNCHANGED <<frame, hist>>

\* The lock is released with no time budget reduced.
OtherRelease_unreduced ==
    /\ other.pc = "reduce"
    /\ CommitAs([Cur EXCEPT !.mgr[other.m].lock = NoThread], OtherIdle)
    /\ UNCHANGED <<frame, hist>>

\* manager.py 362: handling.reduce_time_left(0) if handling is a
\* generate_events; the lock is released and fire returns.
OtherRelease ==
    /\ other.pc = "reduce"
    /\ LET r == other.m
           S1 == IF other.handling # 0
                    /\ events[other.handling].cls = "generate_events"
                 THEN reduce_time_left(Cur, other.handling, 0)
                 ELSE Cur
       IN  CommitAs([S1 EXCEPT !.mgr[r].lock = NoThread], OtherIdle)
    /\ UNCHANGED <<frame, hist>>

\* self.stop() by the other thread (manager.py 661-671): the flag is
\* cleared, then stopped is fired.
OtherStop(m) ==
    /\ other.pc = "idle"
    /\ mgr[m].running
    /\ mgr[mgr[m].root].executing_thread # NoThread
    /\ OtherEnter([Cur EXCEPT !.mgr[m].running = FALSE], m, stopped, 0)
    /\ UNCHANGED <<frame, hist>>

(***************************************************************************)
(* run (manager.py 786-814).                                               *)
(***************************************************************************)
Run(m) ==
    /\ frame.pc = "idle"
    /\ mgr[m].executing_thread = NoThread
    /\ ~mgr[m].running
    /\ hist.ticks > 0
    /\ Commit(fireEvent([Cur EXCEPT !.mgr[m].running = TRUE,
                                    !.mgr[mgr[m].root].executing_thread =
                                        current_thread(MainThread)],
                        m, started, <<>>, 0, MainThread))
    /\ frame' = [frame EXCEPT !.pc = "runloop", !.m = m, !.run = "loop"]
    /\ UNCHANGED hist

\* 798-802 and 808: the loop, then three ticks, then one more.
RunLoop ==
    /\ frame.pc = "runloop"
    /\ LET m == frame.m
       IN  IF frame.run = "loop" /\ (mgr[m].running \/ mgr[m].queue # <<>>)
           THEN TickBegin(frame, m) /\ UNCHANGED <<events, gens, mgr, other>>
           ELSE IF frame.run = "loop"
           THEN TickBegin([frame EXCEPT !.run = "fade", !.left = 3], m)
                /\ UNCHANGED <<events, gens, mgr, other>>
           ELSE IF frame.left > 0
           THEN TickBegin([frame EXCEPT !.left = @ - 1], m)
                /\ UNCHANGED <<events, gens, mgr, other>>
           ELSE /\ Commit([Cur EXCEPT !.mgr[mgr[m].root].executing_thread = NoThread])
                /\ frame' = Idle
    /\ UNCHANGED hist

(***************************************************************************)
(* SpecQueue: fire, flush and tick with priorities.  One handler, which    *)
(* may fire events and returns None.                                       *)
(***************************************************************************)
MaxFiresQ == 4
PrioritiesQ == {0, 1}

HandlersQ == {Handler(1, "app", {"foo"}, "*", 0, FALSE, 1, 0)}
EventsQ == {AppEvent("foo", FALSE, FALSE, FALSE)}

InitQueue == InitWith(HandlersQ, MaxFiresQ, 0, 0)

NextQueue ==
    \/ \E ev \in EventsQ, p \in PrioritiesQ : UserFire(1, ev, p)
    \/ UserFlush(1)
    \/ UserTick(1)
    \/ TickFlush
    \/ FlushEnd
    \/ DispatchBegin
    \/ HandlerCall
    \/ \E ev \in EventsQ, p \in PrioritiesQ : BodyFire(ev, p)
    \/ HandlerReturn("None")
    \/ DispatchEnd

SpecQueue == InitQueue /\ [][NextQueue]_vars

TypeOK ==
    /\ frame.pc \in {"idle", "tasks", "task", "send", "flush", "locking", "handlers", "body", "wait", "runloop"}
    /\ \A m \in Managers : mgr[m].running => mgr[m].executing_thread # NoThread

\* The position of event e in the order of dispatch, 0 if not dispatched.
Pos(e) == IF \E i \in 1..Len(hist.log) : hist.log[i] = e
          THEN CHOOSE i \in 1..Len(hist.log) : hist.log[i] = e
          ELSE 0

\* C3: of two events in the queue at the start of a flush, the one fired
\* with the higher priority is dispatched before the one with the lower.
C3_HigherPriorityFirst ==
    \A f \in 1..Len(hist.starts) : \A a, b \in hist.starts[f] :
        (events[a].prio > events[b].prio /\ Pos(b) # 0)
            => (Pos(a) # 0 /\ Pos(a) < Pos(b))

\* C4: of two events fired with equal priority, the one fired first (the
\* lower index in events) is dispatched first.
C4_FifoWithinPriority ==
    \A b \in 1..Len(events) : \A a \in 1..(b - 1) :
        (events[a].prio = events[b].prio /\ Pos(b) # 0)
            => (Pos(a) # 0 /\ Pos(a) < Pos(b))

\* C4's case: three events of one priority dispatched in fire order around
\* events of the other priority, some fired by a handler.
C4_Witness ==
    /\ Len(hist.log) >= 3
    /\ \E a, b \in 1..Len(events) :
          /\ a < b /\ events[a].prio = events[b].prio
          /\ events[b].by # 0
          /\ Pos(a) # 0 /\ Pos(b) # 0
          /\ \E c \in 1..Len(events) :
                events[c].prio # events[a].prio /\ Pos(c) # 0 /\ a < c /\ c < b

(***************************************************************************)
(* SpecDispatch: one event class with three handlers of mixed priority     *)
(* and filter flag, each of which may return None, a truthy or a falsy     *)
(* value, raise, or raise a termination signal.                            *)
(***************************************************************************)
MaxFiresD == 1

FilterHigh == Handler(1, "app", {"foo"}, "*", 1, TRUE, 1, 0)
PlainLow == Handler(2, "app", {"foo"}, "*", 0, FALSE, 1, 0)
PlainHigh == Handler(3, "app", {"foo"}, "*", 1, FALSE, 1, 0)
HandlersD == {FilterHigh, PlainLow, PlainHigh}
EventsD == {AppEvent("foo", FALSE, TRUE, TRUE)}
ReturnsD == {"None", "T", "F", "raise", "term"}

InitDispatch == InitWith(HandlersD, MaxFiresD, 0, 0)

NextDispatch ==
    \/ \E ev \in EventsD : UserFire(1, ev, 0)
    \/ UserFlush(1)
    \/ FlushEnd
    \/ DispatchBegin
    \/ HandlerCall
    \/ HandlerCallInternal
    \/ \E out \in ReturnsD : HandlerReturn(out)
    \/ DispatchEnd

SpecDispatch == InitDispatch /\ [][NextDispatch]_vars

\* The outcomes of the handlers invoked for event e so far.
Invoked(e) == {events[e].inv[i] : i \in 1..Len(events[e].inv)}

\* C9: when a handler with filter = true has returned a truthy value for an
\* event, no handler of strictly lower priority is invoked for that event.
C9_FilterStopsLower ==
    \A e \in 1..Len(events) : \A x \in Invoked(e) :
        (x[1].filter /\ x[2] = "T")
            => \A y \in Invoked(e) : y[1].priority >= x[1].priority

\* C9's case: an event is dispatched, its filter handler returned a truthy
\* value, and a handler of lower priority was resolved for the event.
C9_Witness ==
    \E e \in 1..Len(events) :
        /\ events[e].dispatched
        /\ <<FilterHigh, "T">> \in Invoked(e)
        /\ PlainLow.id \in {events[e].res[i] : i \in 1..Len(events[e].res)}
        /\ \A y \in Invoked(e) : y[1] # PlainLow

\* C10: when a handler of an event raised an exception, every handler
\* resolved for the event has been invoked once the dispatch is over
\* (unless a filter handler returned a truthy value), the Value has errors
\* set and an error event was fired.
C10_ErrorIsolation ==
    \A e \in 1..Len(events) :
        (/\ events[e].dispatched
         /\ \E x \in Invoked(e) : x[2] = "raise"
         /\ \A x \in Invoked(e) : ~(x[1].filter /\ x[2] = "T"))
            => /\ Len(events[e].inv) = Len(events[e].res)
               /\ events[e].errors
               /\ \E d \in 1..Len(events) :
                     events[d].cls = "error" /\ events[d].of = e

\* C30: when every handler with filter = true that was invoked for an event
\* returned None or a falsy value, and the event was not stopped, all the
\* handlers resolved for the event have been invoked, in the resolved
\* order, once its dispatch is over.
C30_FalsyFilterContinues ==
    \A e \in 1..Len(events) :
        (/\ events[e].dispatched
         /\ ~events[e].stopped
         /\ \E x \in Invoked(e) : x[1].filter
         /\ \A x \in Invoked(e) : x[1].filter => x[2] \in {"None", "F"})
            => /\ Len(events[e].inv) = Len(events[e].res)
               /\ \A i \in 1..Len(events[e].res) :
                      events[e].inv[i][1].id = events[e].res[i]

\* C30's case: the filter handler returned a falsy value that is not None
\* and the handlers ordered after it were invoked, the one of lower
\* priority last.
C30_Witness ==
    \E e \in 1..Len(events) :
        /\ events[e].dispatched
        /\ events[e].inv[1] = <<FilterHigh, "F">>
        /\ Len(events[e].inv) = 3
        /\ events[e].inv[3][1] = PlainLow

(***************************************************************************)
(* SpecTasks: an event that asks for complete, success and failure, with   *)
(* two handlers that may return None, raise or return a generator; the     *)
(* generators are stepped by tick and may fire an event, yield, finish,    *)
(* raise, or yield a CallValue.  The loop is driven by tick() and flush(). *)
(***************************************************************************)
MaxFiresT == 2
MaxGensT == 1

First == Handler(1, "app", {"foo"}, "*", 1, FALSE, 1, 0)
Second == Handler(2, "app", {"foo"}, "*", 0, FALSE, 1, 0)
HandlersT == {First, Second}
Foo == AppEvent("foo", TRUE, TRUE, TRUE)
Bar == AppEvent("bar", FALSE, FALSE, FALSE)
ReturnsT == {"None", "raise"}
YieldsT == {"None", "StopIteration", "raise", "CallValue"}

InitTasks == InitWith(HandlersT, MaxFiresT, MaxGensT, 0)

NextTasks ==
    \/ UserFire(1, Foo, 0)
    \/ UserFlush(1)
    \/ UserTick(1)
    \/ \E task \in frame.taskTodo : TaskStep(task)
    \/ \E out \in YieldsT : TaskYield(out)
    \/ BodyFire(Bar, 0)
    \/ TickFlush
    \/ FlushEnd
    \/ DispatchBegin
    \/ HandlerCall
    \/ HandlerCallInternal
    \/ \E out \in ReturnsT : HandlerReturn(out)
    \/ HandlerReturnGen
    \/ DispatchEnd

SpecTasks == InitTasks /\ [][NextTasks]_vars

\* Event e has finished being dispatched: all its handlers were invoked and
\* none of its coroutine handlers is still alive.
Finished(e) == events[e].dispatched /\ events[e].open = 0

\* The events fired by the handlers and coroutines of e, transitively.
RECURSIVE CausedBy(_, _)
CausedBy(e, n) ==
    IF n = 0 THEN {}
    ELSE LET direct == {d \in 1..Len(events) : events[d].by = e}
         IN  direct \cup UNION {CausedBy(d, n - 1) : d \in direct}

\* The events whose completion the manager counts among the effects of e
\* when it tracks them: those fired by the handlers and coroutines of e and
\* the failure and error events fired for e, transitively.
RECURSIVE Effects(_, _)
Effects(e, n) ==
    IF n = 0 THEN {}
    ELSE LET direct == {d \in 1..Len(events) :
                           \/ events[d].by = e
                           \/ events[d].of = e /\ events[d].cls \in {"failure", "error"}}
         IN  direct \cup UNION {Effects(d, n - 1) : d \in direct}

\* The derived events of class cls fired for e.
DerivedOf(cls, e) ==
    {d \in 1..Len(events) : events[d].cls = cls /\ events[d].of = e}

\* C1: a complete event of ev is in the queue or beyond only when ev and
\* every event transitively caused by ev have finished being dispatched.
C1_CompleteAfterDescendants ==
    \A c \in 1..Len(events) :
        events[c].cls = "complete"
            => /\ Finished(events[c].of)
               /\ \A d \in CausedBy(events[c].of, Len(events)) : Finished(d)

\* C2: for an event with complete = true there are never two complete
\* events, and there is one once the event and all the events it caused
\* have finished, whether or not handlers or coroutines raised.
C2_ExactlyOneComplete ==
    \A e \in 1..Len(events) :
        events[e].complete
            => /\ Cardinality(DerivedOf("complete", e)) <= 1
               /\ (Finished(e) /\ \A d \in Effects(e, Len(events)) : Finished(d))
                     => Cardinality(DerivedOf("complete", e)) = 1

\* C5: for an event with success = true, no success event exists if one of
\* its handlers or coroutines raised, and exactly one exists once the event
\* has finished with none of them raising.
C5_SuccessIffNoError ==
    \A e \in 1..Len(events) :
        events[e].success
            => /\ Cardinality(DerivedOf("success", e)) <= 1
               /\ events[e].raised > 0 => DerivedOf("success", e) = {}
               /\ (events[e].raised = 0 /\ Finished(e))
                     => Cardinality(DerivedOf("success", e)) = 1

\* C6: for an event with failure = true, a failure event exists if and only
\* if one of its handlers or coroutines raised, and exactly one exists when
\* exactly one of them raised.
C6_FailureIffRaised ==
    \A e \in 1..Len(events) :
        events[e].failure
            => /\ (DerivedOf("failure", e) # {}) <=> (events[e].raised > 0)
               /\ events[e].raised = 1 => Cardinality(DerivedOf("failure", e)) = 1

\* C27: when a stepped task with no parent yields a CallValue, the task
\* leaves the task set, the event's waitingHandlers goes down by one, the
\* event's value is not an error and no error or failure event is fired.
C27_ParentlessCallValue ==
    [][(frame.pc = "task" /\ frame.task[3] = 0 /\ TaskYield("CallValue")) =>
          LET e == frame.task[1]
          IN  /\ frame.task \notin mgr'[frame.m].tasks
              /\ events'[e].waitingHandlers = events[e].waitingHandlers - 1
              /\ events'[e].errors = events[e].errors
              /\ events'[e].value # "err"
              /\ \A n \in (Len(events) + 1)..Len(events') :
                     events'[n].cls \notin {"error", "failure"}]_vars

(***************************************************************************)
(* SpecRun: the loop is driven by run().  The handler of foo is a          *)
(* generator function whose generator may yield wait("never", timeout=n);  *)
(* no event named never is fired.  Handlers and generators may fire bar,   *)
(* which has no handler.  A handler may raise a termination signal, which  *)
(* stops the manager.                                                      *)
(***************************************************************************)
MaxFiresR == 2
MaxGensR == 3
MaxTicksR == 3
TimeoutsR == {0, 1}

HandlersR == {Handler(1, "app", {"foo"}, "*", 0, FALSE, 1, 0)}
FooR == AppEvent("foo", TRUE, FALSE, FALSE)
ReturnsR == {"None", "term"}
YieldsR == {"None", "StopIteration"}

InitRun == InitWith(HandlersR, MaxFiresR, MaxGensR, MaxTicksR)

NextRun ==
    \/ UserFire(1, FooR, 0)
    \/ Run(1)
    \/ RunLoop
    \/ \E task \in frame.taskTodo : TaskStep(task)
    \/ \E out \in YieldsR : TaskYield(out)
    \/ \E n \in TimeoutsR : BodyYieldGen(WaitGen(1, "never", <<>>, n))
    \/ BodyFire(Bar, 0)
    \/ TickFlush
    \/ FlushEnd
    \/ DispatchBegin
    \/ HandlerCall
    \/ HandlerCallInternal
    \/ FallBackReturn
    \/ \E out \in ReturnsR : HandlerReturn(out)
    \/ HandlerReturnGen
    \/ DispatchEnd

SpecRun == InitRun /\ [][NextRun]_vars

\* C8: a generator suspended in wait(name, timeout=n) with n >= 0 does not
\* stay suspended while more than n generate_events events are dispatched
\* (one more is allowed for, the tick in which the waiter is stepped again).
C8_TimeoutResumes ==
    \A g \in 1..Len(gens) :
        (gens[g].kind = "wait" /\ gens[g].pc = "waiting" /\ gens[g].asked >= 0)
            => gens[g].gticks <= gens[g].asked + 1

\* C25: when a handler fires an event while the event being handled has a
\* cause, the new event gets that event as its cause and effects 1, and the
\* effects of the event being handled grow by one.
C25_HandlerFireTracksCause ==
    [][(frame.pc = "body" /\ hist'.fires < hist.fires
          /\ mgr[frame.m].currently_handling = frame.ev
          /\ events[frame.ev].cause # 0) =>
          LET e == Len(events')
          IN  /\ events'[e].cause = frame.ev
              /\ events'[e].effects = 1
              /\ events'[frame.ev].effects = events[frame.ev].effects + 1]_vars

(***************************************************************************)
(* SpecCache: two components, the second with handlers.  The application   *)
(* registers and unregisters the second under the first, adds and removes  *)
(* a handler, and fires and flushes on either.                             *)
(***************************************************************************)
MaxFiresC == 2

Fixed == Handler(1, "app", {"foo"}, "*", 0, FALSE, 2, 0)
Added == Handler(2, "app", {"foo"}, "*", 1, FALSE, 2, 0)
HandlersC == {Fixed}
FooC == AppEvent("foo", FALSE, FALSE, FALSE)

InitCache == InitWith(HandlersC, MaxFiresC, 0, 0)

\* c.register(parent) by the application, for a detached component with an
\* empty queue.
Register(c, parent) ==
    /\ frame.pc = "idle"
    /\ c # parent
    /\ mgr[c].parent = c
    /\ mgr[parent].root # c
    /\ mgr[c].queue = <<>>
    /\ ~registerChildRaises(Cur, parent, c)
    /\ Commit(register(Cur, c, parent))
    /\ UNCHANGED <<frame, hist>>

\* c.unregister() by the application.
Unregister(c) ==
    /\ frame.pc = "idle"
    /\ mgr[c].parent # c
    /\ Commit(unregister(Cur, c))
    /\ UNCHANGED <<frame, hist>>

\* m.addHandler(h) by the application.
AddHandler(m, h) ==
    /\ frame.pc = "idle"
    /\ Commit(addHandler(Cur, m, h))
    /\ UNCHANGED <<frame, hist>>

\* m.removeHandler(h) by the application.
RemoveHandler(m, h) ==
    /\ frame.pc = "idle"
    /\ ~removeHandlerRaises(Cur, m, h, FALSE, "")
    /\ Commit(removeHandler(Cur, m, h, FALSE, ""))
    /\ UNCHANGED <<frame, hist>>

NextCache ==
    \/ \E m \in Managers : UserFire(m, FooC, 0)
    \/ \E m \in Managers : UserFlush(m)
    \/ \E c, parent \in Managers : Register(c, parent)
    \/ \E c \in Managers : Unregister(c)
    \/ AddHandler(2, Added)
    \/ RemoveHandler(2, Added)
    \/ FlushEnd
    \/ DispatchBegin
    \/ HandlerCall
    \/ HandlerReturn("None")
    \/ DispatchEnd

SpecCache == InitCache /\ [][NextCache]_vars

\* C7: the handler list every dispatch used is one that resolution from
\* scratch gives for the component tree at the moment of that dispatch.
C7_CacheCorrect ==
    \A e \in 1..Len(events) : events[e].fresh

(***************************************************************************)
(* SpecFire: fire on a root and on a registered or detached component,     *)
(* from the application and from a handler, with flushes in between.       *)
(***************************************************************************)
MaxFiresF == 3

HandlersF == {Handler(1, "app", {"foo"}, "*", 0, FALSE, 1, 0)}
FooF == AppEvent("foo", FALSE, FALSE, FALSE)

InitFire == InitWith(HandlersF, MaxFiresF, 0, 0)

NextFire ==
    \/ \E m \in Managers, p \in PrioritiesQ : UserFire(m, FooF, p)
    \/ \E m \in Managers : UserFlush(m)
    \/ Register(2, 1)
    \/ Unregister(2)
    \/ FlushEnd
    \/ DispatchBegin
    \/ HandlerCall
    \/ \E p \in PrioritiesQ : BodyFire(FooF, p)
    \/ HandlerReturn("None")
    \/ DispatchEnd

SpecFire == InitFire /\ [][NextFire]_vars

\* The number of entries of queue q that are for event e.
Entries(q, e) == Cardinality({i \in 1..Len(q) : q[i][3] = e})

\* C11: a call of fire makes one new event with a fresh Value (no value, no
\* errors), adds exactly one entry for it to the queue of a root and none
\* elsewhere, and invokes no handler: the caller is where it was and no
\* event has a handler invoked or its dispatch ended by the call.
C11_FireOnlyEnqueues ==
    [][hist'.fires < hist.fires =>
        LET e == Len(events')
        IN  /\ Len(events') = Len(events) + 1
            /\ events'[e].value = "None" /\ ~events'[e].errors
            /\ events'[e].inv = <<>> /\ ~events'[e].dispatched
            /\ \E r \in Managers :
                  /\ mgr[r].root = r
                  /\ Entries(mgr'[r].queue, e) = 1
                  /\ Len(mgr'[r].queue) = Len(mgr[r].queue) + 1
                  /\ \A m \in Managers \ {r} : mgr'[m].queue = mgr[m].queue
            /\ frame' = frame
            /\ \A d \in 1..Len(events) :
                  /\ events'[d].inv = events[d].inv
                  /\ events'[d].dispatched = events[d].dispatched]_vars

\* C11's case: an event fired on the registered component 2 (its channel is
\* the component's) sits in the queue of the root 1, and another event was
\* fired by a handler.
C11_Witness ==
    /\ mgr[2].root = 1
    /\ \E i \in 1..Len(mgr[1].queue) :
          events[mgr[1].queue[i][3]].channels = <<channel(2)>>
    /\ \E e \in 1..Len(events) : events[e].by # 0

\* The number of events that were in the queue at the starts of the first
\* n flushes.
RECURSIVE Snapshot(_)
Snapshot(n) == IF n = 0 THEN 0 ELSE Cardinality(hist.starts[n]) + Snapshot(n - 1)

\* C12: once the flushes are over, as many events have been dispatched as
\* were in the queue when the flushes started, and every dispatched event
\* was in the queue when a flush started: none is dispatched by the flush
\* during which it was fired.
C12_FlushDefersNewEvents ==
    /\ frame.pc = "idle" => Len(hist.log) = Snapshot(Len(hist.starts))
    /\ \A i \in 1..Len(hist.log) :
          \E f \in 1..Len(hist.starts) : hist.log[i] \in hist.starts[f]

\* C13: every derived event of an event e (none of whose handlers returned
\* a generator, so that all the events its handlers fired were fired during
\* its dispatch) is enqueued after, and dispatched after, every event the
\* handlers of e fired.
C13_DerivedFollowFired ==
    \A e \in 1..Len(events) :
        (\A x \in Invoked(e) : x[2] # "gen")
            => \A d \in UNION {DerivedOf(cls, e) :
                               cls \in {"done", "success", "complete", "failure", "error"}} :
                  \A c \in {c \in 1..Len(events) : events[c].by = e} :
                      /\ c < d
                      /\ Pos(d) # 0 => (Pos(c) # 0 /\ Pos(c) < Pos(d))

(***************************************************************************)
(* SpecS3: the event root asks for success on channel x and for complete;  *)
(* its handler fires c1 and c2, the handler of c1 fires g1 and that of c2  *)
(* fires g2.  The application fires root and calls flush() or tick().      *)
(***************************************************************************)
MaxRootsS == 2

OnRoot == Handler(1, "app", {"root"}, "*", 0, FALSE, 1, 0)
OnC1 == Handler(2, "app", {"c1"}, "*", 0, FALSE, 1, 0)
OnC2 == Handler(3, "app", {"c2"}, "*", 0, FALSE, 1, 0)
HandlersS == {OnRoot, OnC1, OnC2}
RootS == [AppEvent("root", TRUE, TRUE, FALSE) EXCEPT !.success_channels = <<"x">>]
Plain(name) == AppEvent(name, FALSE, FALSE, FALSE)

\* The events the body of handler h fires, in order.
Script(h) ==
    CASE h = OnRoot -> <<Plain("c1"), Plain("c2")>>
      [] h = OnC1 -> <<Plain("g1")>>
      [] h = OnC2 -> <<Plain("g2")>>
      [] OTHER -> <<>>

\* The events fired so far by the handlers of event e.
FiredBy(e) == {c \in 1..Len(events) : events[c].by = e}

InitS3 == InitWith(HandlersS, 5 * MaxRootsS, 0, 0)

FireRoot ==
    /\ Cardinality({e \in 1..Len(events) : events[e].name = "root"}) < MaxRootsS
    /\ UserFire(1, RootS, 0)

ScriptFire ==
    /\ frame.pc = "body"
    /\ Cardinality(FiredBy(frame.ev)) < Len(Script(frame.h))
    /\ BodyFire(Script(frame.h)[Cardinality(FiredBy(frame.ev)) + 1], 0)

ScriptReturn ==
    /\ frame.pc = "body"
    /\ Cardinality(FiredBy(frame.ev)) = Len(Script(frame.h))
    /\ HandlerReturn("None")

NextS3 ==
    \/ FireRoot
    \/ UserFlush(1)
    \/ UserTick(1)
    \/ TickFlush
    \/ FlushEnd
    \/ DispatchBegin
    \/ HandlerCall
    \/ ScriptFire
    \/ ScriptReturn
    \/ DispatchEnd

SpecS3 == InitS3 /\ [][NextS3]_vars

\* Event b is not dispatched before event a.
Before(a, b) == Pos(b) # 0 => (Pos(a) # 0 /\ Pos(a) < Pos(b))

Roots == {r \in 1..Len(events) : events[r].name = "root"}
GrandChildren(r) == UNION {FiredBy(c) : c \in FiredBy(r)}

\* What the two orders have in common: root first, c1 before c2, complete
\* last, success on channel x, complete on root's channels, never two
\* complete events and one dispatched once nothing is left to do.
S3Frame(r) ==
    /\ \A c \in FiredBy(r) : Before(r, c)
    /\ \A c, d \in FiredBy(r) :
          (events[c].name = "c1" /\ events[d].name = "c2") => Before(c, d)
    /\ \A c \in FiredBy(r) : \A g \in FiredBy(c) : Before(c, g)
    /\ \A s \in DerivedOf("success", r) :
          events[s].channels = <<"x">> /\ \A c \in FiredBy(r) : Before(c, s)
    /\ \A k \in DerivedOf("complete", r) :
          /\ events[k].channels = events[r].channels
          /\ \A g \in GrandChildren(r) : Before(g, k)
          /\ \A s \in DerivedOf("success", r) : Before(s, k)
    /\ Cardinality(DerivedOf("complete", r)) <= 1
    /\ (frame.pc = "idle" /\ mgr[1].queue = <<>> /\ events[r].dispatched)
          => /\ \E k \in DerivedOf("complete", r) : events[k].dispatched
             /\ \E s \in DerivedOf("success", r) : events[s].dispatched
             /\ Cardinality(GrandChildren(r)) = 2

MaxFiresL == 3
MaxGensL == 2

Starter == Handler(1, "app", {"start"}, "*", 0, FALSE, 1, 0)
Worker == Handler(2, "app", {"task"}, "*", 0, FALSE, 1, 0)
HandlersL == {Starter, Worker}
StartL == AppEvent("start", FALSE, FALSE, FALSE)
TaskL == AppEvent("task", FALSE, FALSE, FALSE)
YieldsL == {"None", "StopIteration"}

InitCall == InitWith(HandlersL, MaxFiresL, MaxGensL, 0)

\* The handler of start returns its generator, the handler of task a value.
ReturnL ==
    /\ frame.pc = "body"
    /\ IF frame.h = Starter THEN HandlerReturnGen ELSE HandlerReturn("T")

NextCall ==
    \/ \E ev \in {StartL, TaskL} : UserFire(1, ev, 0)
    \/ UserTick(1)
    \/ \E task \in frame.taskTodo : TaskStep(task)
    \/ \E out \in YieldsL : TaskYield(out)
    \/ \E out \in YieldsL : SendYield(out)
    \/ BodyYieldGen(CallGen(1, TaskL, -1))
    \/ TickFlush
    \/ FlushEnd
    \/ DispatchBegin
    \/ HandlerCall
    \/ HandlerCallInternal
    \/ ReturnL
    \/ DispatchEnd

SpecCall == InitCall /\ [][NextCall]_vars

\* C15: when the generator that yielded call(ev) is resumed (the value is
\* being sent into it), the value is that of the event the call fired and
\* the handlers of that event have run.
C15_CallResumesWithOwnEvent ==
    (frame.pc = "send" /\ gens[frame.task[2]].kind = "call")
        => /\ frame.value = <<"CallValue", gens[frame.task[2]].fired>>
           /\ events[gens[frame.task[2]].fired].dispatched

(***************************************************************************)
(* SpecThreads: run() drives the manager in one thread while a second      *)
(* thread fires foo.  The handler of foo returns None or a generator that  *)
(* yields None until it ends.                                              *)
(***************************************************************************)
MaxFiresH == 2
MaxGensH == 1
MaxTicksH == 3

HandlersH == {Handler(1, "app", {"foo"}, "*", 0, FALSE, 1, 0)}
FooH == AppEvent("foo", FALSE, FALSE, FALSE)
YieldsH == {"None", "StopIteration"}

InitThreads == InitWith(HandlersH, MaxFiresH, MaxGensH, MaxTicksH)

NextThreads ==
    \/ Run(1)
    \/ RunLoop
    \/ \E task \in frame.taskTodo : TaskStep(task)
    \/ \E out \in YieldsH : TaskYield(out)
    \/ TickFlush
    \/ FlushEnd
    \/ DispatchBegin
    \/ DispatchLocked
    \/ HandlerCall
    \/ HandlerCallInternal
    \/ FallBackReturn
    \/ HandlerReturn("None")
    \/ HandlerReturnGen
    \/ DispatchEnd
    \/ OtherFire(1, FooH, 0)
    \/ OtherAcquire
    \/ OtherPush
    \/ OtherRelease

SpecThreads == InitThreads /\ [][NextThreads]_vars

\* The events in the queue of root r that the other thread fired, its call
\* of fire having returned.
ForeignQueued(r) ==
    {e \in Queued(mgr[r].queue) :
        events[e].thread = OtherThread /\ ~(other.pc # "idle" /\ other.ev = e)}

\* C16: while a generate_events event is the one being handled (so also
\* while the dispatcher sleeps in its fallback handler) and an event
\* fired by the other thread, whose fire has returned, is in the queue, the
\* time budget of the generate_events event is zero.
C16_NoLostWakeup ==
    \A r \in Managers :
        LET g == mgr[r].currently_handling
        IN  (g # 0 /\ events[g].cls = "generate_events" /\ ForeignQueued(r) # {})
                => events[g].time_left = 0

\* The dispatcher went to sleep with a positive time budget, the other
\* thread fired meanwhile, and the budget is now zero.
C16_Witness ==
    /\ frame.pc = "wait"
    /\ mgr[frame.m].tasks # {}
    /\ events[frame.ev].time_left = 0
    /\ ForeignQueued(frame.m) # {}

\* The data that the root mutex guards.
Guarded(M) == <<M.queue, M.counter, M.currently_handling, M.cache_needs_refresh>>

\* C18: the queue, the sequence counter, the currently-handling pointer and
\* the cache-dirty flag of a root are accessed only by the thread that holds
\* the root's lock: while the other thread holds it, no step of the thread
\* that drives the manager changes any of them.
C18_GuardedByMutex ==
    [][\A r \in Managers :
          (mgr[r].lock = get_ident(OtherThread) /\ other' = other)
              => Guarded(mgr'[r]) = Guarded(mgr[r])]_vars

(***************************************************************************)
(* SpecThreadsFair: SpecThreads with a scheduler that lets each thread run *)
(* whenever it can: the thread inside run() takes its next step, and the   *)
(* other thread, once inside fire, goes on to release the lock.            *)
(***************************************************************************)
RunSteps ==
    \/ RunLoop
    \/ \E task \in frame.taskTodo : TaskStep(task)
    \/ \E out \in YieldsH : TaskYield(out)
    \/ TickFlush
    \/ FlushEnd
    \/ DispatchBegin
    \/ DispatchLocked
    \/ HandlerCall
    \/ HandlerCallInternal
    \/ FallBackReturn
    \/ HandlerReturn("None")
    \/ HandlerReturnGen
    \/ DispatchEnd

FireSteps == OtherAcquire \/ OtherPush \/ OtherRelease

MaxFiresG == 1
MaxGensG == 1
MaxTicksG == 3

InitThreadsFair == InitWith(HandlersH, MaxFiresG, MaxGensG, MaxTicksG)

SpecThreadsFair ==
    InitThreadsFair /\ [][NextThreads]_vars /\ WF_vars(RunSteps) /\ WF_vars(FireSteps)

\* The k-th event that the other thread fired, 0 if there is none yet.
Foreign(k) ==
    LET F == {e \in 1..Len(events) : events[e].thread = OtherThread}
        K == {e \in F : Cardinality({f \in F : f <= e}) = k}
    IN  IF K = {} THEN 0 ELSE CHOOSE e \in K : TRUE

\* C17: an event that the other thread fired while run() is driving the
\* manager is eventually dispatched, all its handlers called (or else the
\* model's supply of ticks has run out).
C17_ForeignEventDispatched ==
    \A k \in 1..MaxFiresG :
        (mgr[1].running /\ Foreign(k) \in ForeignQueued(1))
            ~> ((Foreign(k) # 0 /\ events[Foreign(k)].dispatched) \/ hist.ticks = 0)

\* An event of the other thread has been dispatched to the handler of foo
\* after the dispatcher had gone to sleep, with ticks to spare.
C17_Witness ==
    /\ hist.ticks > 0
    /\ \E e \in 1..Len(events) :
          /\ events[e].thread = OtherThread
          /\ events[e].dispatched
          /\ Len(events[e].inv) = 1
          /\ \E g \in 1..e :
                /\ events[g].cls = "generate_events"
                /\ events[g].time_left = 0
                /\ events[g].seq < events[e].seq
                /\ mgr[1].tasks = {}

(***************************************************************************)
(* SpecKill: the six components of test_kill, registered as the test does  *)
(* (a += b; b += c; e += f; d += e; a += d).  The application kills        *)
(* registered components, fires foo on the root and flushes.  hist has one *)
(* more field here: kills, the component of each kill with the tree as it  *)
(* was before.                                                             *)
(***************************************************************************)
NComponentsK == 6
ComponentsK == 1..NComponentsK
MaxFiresK == 2

HandlersK == {Handler(1, "app", {"foo"}, "*", 0, FALSE, 1, 0)}
FooK == AppEvent("foo", FALSE, FALSE, FALSE)

\* The tree of S: each component's parent and components.
Tree(M) == [c \in DOMAIN M |-> [parent |-> M[c].parent, components |-> M[c].components]]

InitKill ==
    LET S0 == [events |-> <<>>, gens |-> <<>>, blocked |-> FALSE,
               mgr |-> [m \in ComponentsK |->
                          [Manager(m) EXCEPT !.handlers =
                              UNION {{<<n, h>> : n \in h.names} :
                                        h \in {x \in HandlersK : x.owner = m}}]]]
        S1 == register(register(S0, 2, 1), 3, 2)
        S2 == register(register(S1, 6, 5), 5, 4)
    IN  /\ events = <<>>
        /\ gens = <<>>
        /\ mgr = register(S2, 4, 1).mgr
        /\ frame = Idle
        /\ other = OtherIdle
        /\ hist = [log |-> <<>>, starts |-> <<>>, fires |-> MaxFiresK,
                   gens |-> 0, ticks |-> 0, kills |-> <<>>]

\* kill(d) by the application, d being registered.
Kill(d) ==
    /\ frame.pc = "idle"
    /\ mgr[d].parent # d
    /\ Commit(kill(Cur, d))
    /\ hist' = [hist EXCEPT !.kills = Append(@, [d |-> d, before |-> Tree(mgr)])]
    /\ UNCHANGED frame

NextKill ==
    \/ \E d \in ComponentsK : Kill(d)
    \/ UserFire(1, FooK, 0)
    \/ UserFlush(1)
    \/ FlushEnd
    \/ DispatchBegin
    \/ HandlerCall
    \/ HandlerReturn("None")
    \/ DispatchEnd

SpecKill == InitKill /\ [][NextKill]_vars

\* The subtree of d in the recorded tree T.
RECURSIVE SubtreeIn(_, _)
SubtreeIn(T, d) == {d} \cup UNION {SubtreeIn(T, k) : k \in T[d].components}

\* C19: once kill(d) has returned and the queue is flushed empty, every
\* component of what was d's subtree has itself as parent and has no
\* components, d is not among the components of its former parent, and
\* every other component has the parent and (d apart) the components it
\* had before.
C19_KillDetachesSubtree ==
    (hist.kills # <<>> /\ frame.pc = "idle" /\ mgr[1].queue = <<>>)
        => LET k == hist.kills[Len(hist.kills)]
               T == SubtreeIn(k.before, k.d)
           IN  /\ \A c \in T : mgr[c].parent = c /\ mgr[c].components = {}
               /\ k.d \notin mgr[k.before[k.d].parent].components
               /\ \A c \in ComponentsK \ T :
                     /\ mgr[c].parent = k.before[c].parent
                     /\ mgr[c].components = k.before[c].components \ {k.d}

\* kill(d) of test_kill has been called, on the subtree d-e-f, and an event
\* fired after it has been flushed.
C19_Witness ==
    /\ Len(hist.kills) = 1
    /\ hist.kills[1].d = 4
    /\ SubtreeIn(hist.kills[1].before, 4) = {4, 5, 6}
    /\ frame.pc = "idle"
    /\ mgr[1].queue = <<>>
    /\ mgr[1].components = {2}
    /\ \E e \in 1..Len(events) : events[e].dispatched

(***************************************************************************)
(* SpecStop: run() drives the manager; stop() is called by a handler of    *)
(* foo that raises a termination signal, or by the other thread.  Each     *)
(* thread runs whenever it can.                                            *)
(***************************************************************************)
MaxFiresP == 2
MaxTicksP == 2

OnFoo == Handler(1, "app", {"foo"}, "*", 0, FALSE, 1, 0)
OnStopped == Handler(2, "app", {"stopped"}, "*", 0, FALSE, 1, 0)
HandlersP == {OnFoo, OnStopped}
FooP == AppEvent("foo", FALSE, FALSE, FALSE)
ReturnsP == {"None", "term"}

InitStop == InitWith(HandlersP, MaxFiresP, 0, MaxTicksP)

\* run() is called once.
RunOnce ==
    /\ \A e \in 1..Len(events) : events[e].cls # "started"
    /\ Run(1)

\* The steps of the thread inside run().
LoopSteps ==
    \/ RunLoop
    \/ TickFlush
    \/ FlushEnd
    \/ DispatchBegin
    \/ DispatchLocked
    \/ HandlerCall
    \/ HandlerCallInternal
    \/ FallBackReturn
    \/ \E out \in ReturnsP : HandlerReturn(out)
    \/ DispatchEnd

NextStop ==
    \/ UserFire(1, FooP, 0)
    \/ RunOnce
    \/ RunLoop
    \/ TickFlush
    \/ FlushEnd
    \/ DispatchBegin
    \/ DispatchLocked
    \/ HandlerCall
    \/ HandlerCallInternal
    \/ FallBackReturn
    \/ \E out \in ReturnsP : HandlerReturn(out)
    \/ BodyFire(FooP, 0)
    \/ DispatchEnd
    \/ OtherStop(1)
    \/ OtherAcquire
    \/ OtherPush
    \/ OtherRelease

SpecStop == InitStop /\ [][NextStop]_vars /\ WF_vars(LoopSteps) /\ WF_vars(FireSteps)

\* stop() has been called: it cleared the flag and made its stopped event.
StopCalled == \E e \in 1..Len(events) : events[e].cls = "stopped"

\* run() is not in progress.
Returned == frame.pc = "idle" /\ mgr[1].executing_thread = NoThread

\* C20: once stop() has been called, run() returns, and when it has
\* returned every stopped event that stop() fired has been dispatched, all
\* its handlers called.
C20_StopEndsRun ==
    /\ StopCalled ~> Returned
    /\ [](Returned => \A e \in 1..Len(events) :
                          events[e].cls = "stopped" => events[e].dispatched)

(***************************************************************************)
(* SpecTerm: handlers and coroutines that raise KeyboardInterrupt or       *)
(* SystemExit, with the manager driven by run() or by the application's    *)
(* own flush() and tick() calls.  Only such a handler calls stop().        *)
(***************************************************************************)
MaxFiresM == 1
MaxGensM == 1
MaxTicksM == 2

HandlersM == {Handler(1, "app", {"foo"}, "*", 1, FALSE, 1, 0),
              Handler(2, "app", {"foo"}, "*", 0, FALSE, 1, 0)}
FooM == AppEvent("foo", FALSE, FALSE, TRUE)
ReturnsM == {"None", "raise", "term"}
YieldsM == {"None", "StopIteration", "term"}

InitTerm == InitWith(HandlersM, MaxFiresM, MaxGensM, MaxTicksM)

\* The steps of the thread that is inside run(), flush() or tick().
TermSteps ==
    \/ RunLoop
    \/ \E task \in mgr[1].tasks : TaskStep(task)
    \/ \E out \in YieldsM : TaskYield(out)
    \/ TickFlush
    \/ FlushEnd
    \/ DispatchBegin
    \/ HandlerCall
    \/ HandlerCallInternal
    \/ FallBackReturn
    \/ \E out \in ReturnsM : HandlerReturn(out)
    \/ HandlerReturnGen
    \/ DispatchEnd

NextTerm ==
    \/ UserFire(1, FooM, 0)
    \/ UserFlush(1)
    \/ UserTick(1)
    \/ RunOnce
    \/ RunLoop
    \/ \E task \in mgr[1].tasks : TaskStep(task)
    \/ \E out \in YieldsM : TaskYield(out)
    \/ TickFlush
    \/ FlushEnd
    \/ DispatchBegin
    \/ HandlerCall
    \/ HandlerCallInternal
    \/ FallBackReturn
    \/ \E out \in ReturnsM : HandlerReturn(out)
    \/ HandlerReturnGen
    \/ DispatchEnd

SpecTerm == InitTerm /\ [][NextTerm]_vars /\ WF_vars(TermSteps)

\* A handler or a stepped coroutine raises a termination signal.
TermRaised == HandlerReturn("term") \/ TaskYield("term")

\* The events fired by the step.
FiredNow == {events'[e] : e \in (Len(events) + 1)..Len(events')}

\* run() leaves its while loop.
LoopExit == frame.pc = "runloop" /\ frame.run = "loop" /\ frame'.run = "fade"

\* C21: a handler (or stepped coroutine) that raises KeyboardInterrupt or
\* SystemExit makes the manager call stop() at once: the step fires no
\* failure or error event and records no error, it fires stopped if the
\* manager was running, and the running flag is false after it; under run()
\* the loop is then left, and it is left only with an empty queue.
C21_TerminationStops ==
    /\ [][TermRaised =>
            /\ ~mgr'[frame.m].running
            /\ \A ev \in FiredNow : ev.cls = "stopped"
            /\ mgr[frame.m].running <=> FiredNow # {}
            /\ \A e \in 1..Len(events) :
                   /\ events'[e].errors = events[e].errors
                   /\ events'[e].raised = events[e].raised]_vars
    /\ [][LoopExit => ~mgr[frame.m].running /\ mgr[frame.m].queue = <<>>]_vars
    /\ StopCalled ~> Returned

\* run() has returned after a handler raised a termination signal while an
\* event that asked for failure notification was being dispatched.
C21_Witness ==
    /\ Returned
    /\ StopCalled
    /\ \E e \in 1..Len(events) :
           /\ events[e].failure
           /\ \E i \in 1..Len(events[e].inv) : events[e].inv[i][2] = "term"

\* C35: a handler invocation that raises a termination signal contributes no
\* return value: the step leaves the value and the waitingHandlers counter
\* of the event being dispatched, and the task set, as they were, whatever
\* the handler called before it returned.
C35_TermContributesNothing ==
    [][HandlerReturn("term") =>
          /\ events'[frame.ev].value = events[frame.ev].value
          /\ events'[frame.ev].waitingHandlers = events[frame.ev].waitingHandlers
          /\ mgr'[frame.m].tasks = mgr[frame.m].tasks]_vars

(***************************************************************************)
(* SpecReg: two components, each of which may have events queued and may   *)
(* have been started in a thread of its own, are registered with and       *)
(* unregistered from each other by the application, which also fires and   *)
(* flushes.  Queue entries with equal (priority, count) are ordered by     *)
(* comparing their events, which Python 2 does by address and Python 3     *)
(* refuses to do; a registration that would bring such entries into one    *)
(* queue is not among the calls made here.                                 *)
(***************************************************************************)
MaxFiresE == 2
MaxCallsE == 2

HandlersE == {Handler(1, "app", {"foo"}, "*", 0, FALSE, 1, 0)}
FooE == AppEvent("foo", FALSE, FALSE, FALSE)

InitReg ==
    /\ events = <<>>
    /\ gens = <<>>
    /\ mgr = InitMgr(HandlersE)
    /\ frame = Idle
    /\ other = OtherIdle
    /\ hist = [log |-> <<>>, starts |-> <<>>, fires |-> MaxFiresE,
               gens |-> 0, ticks |-> 0, calls |-> <<>>]

\* The thread that m.start() makes.
ThreadOf(m) == IF m = 1 THEN "Thread-1" ELSE "Thread-2"

\* m.start(): the new thread has entered run() and done lines 786-796.  It
\* is not scheduled again here.
Start(m) ==
    /\ frame.pc = "idle"
    /\ mgr[m].parent = m
    /\ mgr[m].executing_thread = NoThread
    /\ ~mgr[m].running
    /\ Commit(fireEvent([Cur EXCEPT !.mgr[m].running = TRUE,
                                    !.mgr[m].executing_thread =
                                        current_thread(ThreadOf(m))],
                        m, started, <<>>, 0, ThreadOf(m)))
    /\ UNCHANGED <<frame, hist>>

\* The entries of c's queue can join those of q, a queue whose counter
\* stands at n, with no two entries of equal (priority, count) ever.
Mergeable(q, n, cq) ==
    \A j \in 1..Len(cq) :
        /\ cq[j][2] < n
        /\ \A i \in 1..Len(q) : ~(q[i][1] = cq[j][1] /\ q[i][2] = cq[j][2])

\* c.register(parent) by the application, for a detached component c: the
\* call registers c or raises UnregistrableError.
RegisterCall(c, parent) ==
    /\ frame.pc = "idle"
    /\ Len(hist.calls) < MaxCallsE
    /\ c # parent
    /\ mgr[c].parent = c
    /\ mgr[parent].root # c
    /\ LET raised == registerChildRaises(Cur, parent, c)
           r == mgr[parent].root
       IN  /\ ~raised => Mergeable(mgr[r].queue, mgr[r].counter, mgr[c].queue)
           /\ Commit(IF raised THEN registerChild_raised(Cur, parent, c)
                     ELSE register(Cur, c, parent))
           /\ hist' = [hist EXCEPT !.calls = Append(@,
                          [c |-> c, parent |-> parent, raised |-> raised,
                           moved |-> Queued(mgr[c].queue)])]
    /\ UNCHANGED frame

NextReg ==
    \/ \E m \in Managers, p \in PrioritiesQ : UserFire(m, FooE, p)
    \/ \E m \in Managers : UserFlush(m)
    \/ \E m \in Managers : Start(m)
    \/ \E c, parent \in Managers : RegisterCall(c, parent)
    \/ \E c \in Managers : Unregister(c)
    \/ FlushEnd
    \/ DispatchBegin
    \/ HandlerCall
    \/ HandlerReturn("None")
    \/ DispatchEnd

SpecReg == InitReg /\ [][NextReg]_vars

\* C22: a registration that meets a dispatcher thread both in the component
\* and in the root raises, and it leaves the component set of the parent,
\* the queues of the root and of the component, the dispatcher threads of
\* both and the cache flag of the root as they were.
C22_RaiseChangesNothing ==
    [][Len(hist'.calls) > Len(hist.calls) =>
          LET k == hist'.calls[Len(hist'.calls)]
              r == mgr[k.parent].root
          IN  /\ k.raised <=> (mgr[k.c].executing_thread # NoThread
                               /\ mgr[r].executing_thread # NoThread)
              /\ k.raised =>
                    /\ mgr'[k.parent].components = mgr[k.parent].components
                    /\ mgr'[r].queue = mgr[r].queue
                    /\ mgr'[k.c].queue = mgr[k.c].queue
                    /\ mgr'[r].executing_thread = mgr[r].executing_thread
                    /\ mgr'[k.c].executing_thread = mgr[k.c].executing_thread
                    /\ mgr'[r].cache_needs_refresh = mgr[r].cache_needs_refresh]_vars

\* A registration has raised while the component had events queued and the
\* root's cache flag was clear.
C22_Witness ==
    \E i \in 1..Len(hist.calls) :
        LET k == hist.calls[i]
        IN  /\ k.raised
            /\ k.moved # {}
            /\ mgr[k.c].queue # <<>>
            /\ ~mgr[mgr[k.parent].root].cache_needs_refresh
            /\ k.c \notin mgr[k.parent].components

\* Event a is queued before event b: (priority, count) of a is the lower.
EntryLt(a, b) == TupleLt(<<events[a].prio, events[a].seq>>,
                         <<events[b].prio, events[b].seq>>)

\* C28: a registration moves the entries of the component's queue to the
\* root's queue, each once, and leaves the component's queue empty; and of
\* two events in a queue when a flush of it starts, the one with the lower
\* (priority, count) is dispatched first.
C28_RegisterKeepsQueueOrder ==
    /\ [][(Len(hist'.calls) > Len(hist.calls)
             /\ ~hist'.calls[Len(hist'.calls)].raised) =>
            LET k == hist'.calls[Len(hist'.calls)]
                r == mgr[k.parent].root
            IN  /\ mgr'[k.c].queue = <<>>
                /\ Len(mgr'[r].queue) = Len(mgr[r].queue) + Len(mgr[k.c].queue)
                /\ Queued(mgr'[r].queue) = Queued(mgr[r].queue) \cup k.moved]_vars
    /\ [](\A f \in 1..Len(hist.starts) : \A a, b \in hist.starts[f] :
             (EntryLt(a, b) /\ Pos(b) # 0) => (Pos(a) # 0 /\ Pos(a) < Pos(b)))

(***************************************************************************)
(* SpecResolve: getHandlers as a function of the component tree, the       *)
(* handler tables, the event name and the channel.  The application adds   *)
(* handlers, registers and unregisters the two components, and then         *)
(* resolves.                                                               *)
(***************************************************************************)
NamesV == {"foo", "bar"}
ChannelsV == {"*", "a", "b", SelfChannel(1), SelfChannel(2)}

HandlersV ==
    {Handler(1, "app", {"foo"}, "None", 0, FALSE, 1, 0),
     Handler(2, "app", {"foo"}, "b", 0, FALSE, 1, 0),
     Handler(3, "app", {}, "*", 0, FALSE, 1, 0),
     Handler(4, "app", {"foo", "bar"}, "None", 0, FALSE, 2, 0),
     Handler(5, "app", {}, "b", 0, FALSE, 2, 0),
     Handler(6, "app", {}, "None", 0, FALSE, 2, 0)}

InitResolve ==
    /\ events = <<>>
    /\ gens = <<>>
    /\ mgr = InitMgr({})
    /\ frame = Idle
    /\ other = OtherIdle
    /\ hist = [log |-> <<>>, starts |-> <<>>, fires |-> 0, gens |-> 0,
               ticks |-> 0, asked |-> <<>>]

\* self.getHandlers(event, chan) for an event named name.
Resolve(self, name, chan) ==
    /\ frame.pc = "idle"
    /\ hist' = [hist EXCEPT !.asked =
                   <<[self |-> self, name |-> name, chan |-> chan,
                      got |-> getHandlers(Cur, self, name, chan)]>>]
    /\ UNCHANGED <<events, gens, mgr, frame, other>>

\* Nothing has been resolved yet: the tree and the tables are being built.
Building == hist.asked = <<>>

NextResolve ==
    \/ \E h \in HandlersV : Building /\ AddHandler(h.owner, h)
    \/ \E c, parent \in Managers : Building /\ Register(c, parent)
    \/ \E c \in Managers : Building /\ Unregister(c)
    \/ \E self \in Managers, name \in NamesV, chan \in ChannelsV :
           Resolve(self, name, chan)

SpecResolve == InitResolve /\ [][NextResolve]_vars

\* The handlers of the buckets "*" and name of the components cs of tree T.
Bound(T, cs, name) ==
    UNION {{p[2] : p \in {q \in T[c].handlers : q[1] = "*" \/ q[1] = name}} :
              c \in cs}

\* The global handlers of the components cs of tree T.
Globals(T, cs) == UNION {T[c].globals : c \in cs}

\* The channel of h, or of the component that owns h when h has none.
Effective(h) == IF h.channel = "None" THEN channel(h.owner) ELSE h.channel

\* The handlers whose effective channel is "*" or chan, or all for "*".
Matching(hs, chan) == {h \in hs : chan = "*" \/ Effective(h) \in {"*", chan}}

\* C23 as stated: for every channel, getHandlers returns the handlers of
\* the buckets of the name and "*" (and the globals) whose effective channel
\* is "*" or the channel, or all of them for the channel "*".
C23_ResolvedByChannel ==
    \A i \in 1..Len(hist.asked) :
        LET k == hist.asked[i]
            cs == SubtreeIn(mgr, k.self)
        IN  k.got = Matching(Bound(mgr, cs, k.name) \cup Globals(mgr, cs), k.chan)

\* C23: the same for every channel that is a string; for a channel that is
\* a component (line 271, channel is self) getHandlers returns in addition
\* every handler of that component's buckets of the name and "*", whatever
\* its channel.
C23_ResolvedByChannelOrSelf ==
    \A i \in 1..Len(hist.asked) :
        LET k == hist.asked[i]
            cs == SubtreeIn(mgr, k.self)
            addressed == {c \in cs : k.chan = SelfChannel(c)}
        IN  k.got = Matching(Bound(mgr, cs, k.name) \cup Globals(mgr, cs), k.chan)
                       \cup Bound(mgr, addressed, k.name)

\* foo has been resolved on channel "a" in a tree of two components with a
\* handler of another concrete channel, handlers without a channel of their
\* own, a catch-all handler and a global one; some were returned, not all.
C23_Witness ==
    \E i \in 1..Len(hist.asked) :
        LET k == hist.asked[i]
        IN  /\ k.chan = "a" /\ k.name = "foo" /\ k.self = 1
            /\ mgr[1].components = {2}
            /\ \E h \in Bound(mgr, {1, 2}, "foo") : Effective(h) = "b"
            /\ \E h \in k.got : h.channel = "None" /\ h.names = {}
            /\ \E h \in k.got : h.channel = "None" /\ h.names # {}
            /\ mgr[1].globals # {}
            /\ k.got # Bound(mgr, {1, 2}, "foo") \cup Globals(mgr, {1, 2})

(***************************************************************************)
(* SpecOrder: handlers of several priorities and filter flags, two of      *)
(* them with equal sort keys, and a handler of generate_events; the        *)
(* application adds and removes one more handler between flushes and may   *)
(* call run().                                                             *)
(***************************************************************************)
MaxFiresO == 3
MaxTicksO == 2
MaxChangesO == 1

HandlersO ==
    {Handler(1, "app", {"foo"}, "*", 1, FALSE, 1, 0),
     Handler(2, "app", {"foo"}, "*", 0, TRUE, 1, 0),
     Handler(3, "app", {"foo"}, "*", 0, FALSE, 1, 0),
     Handler(4, "app", {"foo"}, "*", 0, FALSE, 1, 0),
     Handler(5, "app", {"generate_events"}, "*", -1, FALSE, 1, 0)}
Extra == Handler(6, "app", {"foo"}, "*", 1, TRUE, 1, 0)
FooO == AppEvent("foo", FALSE, FALSE, FALSE)
ReturnsO == {"None"}

InitOrder ==
    /\ events = <<>>
    /\ gens = <<>>
    /\ mgr = InitMgr(HandlersO)
    /\ frame = Idle
    /\ other = OtherIdle
    /\ hist = [log |-> <<>>, starts |-> <<>>, fires |-> MaxFiresO, gens |-> 0,
               ticks |-> MaxTicksO, changes |-> <<>>]

\* addHandler(Extra) or removeHandler(Extra) by the application; the number
\* of dispatches begun so far is noted.
Change ==
    /\ frame.pc = "idle"
    /\ Len(hist.changes) < MaxChangesO
    /\ Commit(IF <<"foo", Extra>> \in mgr[1].handlers
              THEN removeHandler(Cur, 1, Extra, FALSE, "")
              ELSE addHandler(Cur, 1, Extra))
    /\ hist' = [hist EXCEPT !.changes = Append(@, Len(hist.log))]
    /\ UNCHANGED frame

NextOrder ==
    \/ UserFire(1, FooO, 0)
    \/ UserFlush(1)
    \/ Change
    \/ RunOnce
    \/ RunLoop
    \/ TickFlush
    \/ FlushEnd
    \/ DispatchBegin
    \/ HandlerCall
    \/ HandlerCallInternal
    \/ \E out \in ReturnsO : HandlerReturn(out)
    \/ BodyFire(FooO, 0)
    \/ DispatchEnd

SpecOrder == InitOrder /\ [][NextOrder]_vars

\* Handler g may be invoked after handler h: its priority is not higher,
\* and if the priorities are equal it is not a filter following a non-filter.
MayFollow(h, g) ==
    /\ g.priority <= h.priority
    /\ (g.priority = h.priority /\ g.filter) => h.filter

\* Dispatches i and j of the log (i first) have no handler change between.
NoChangeBetween(i, j) ==
    \A c \in 1..Len(hist.changes) : ~(i <= hist.changes[c] /\ hist.changes[c] < j)

\* Two dispatches of events of one name and channels, with no handler
\* change in between, use the same list of handlers.
SameOrder ==
    \A j \in 1..Len(hist.log) : \A i \in 1..(j - 1) :
        LET a == events[hist.log[i]]
            b == events[hist.log[j]]
        IN  (a.name = b.name /\ a.channels = b.channels /\ NoChangeBetween(i, j))
                => a.res = b.res

MaxFiresW == 3
MaxGensW == 3

HandlersW == {Starter, Worker}
YieldsW == {"None", "StopIteration", "raise"}

InitWait == InitWith(HandlersW, MaxFiresW, MaxGensW, 0)

\* The handler of start returns its generator, the handler of task None or
\* its generator.
ReturnW ==
    /\ frame.pc = "body"
    /\ IF frame.h = Starter THEN HandlerReturnGen
       ELSE HandlerReturn("None") \/ HandlerReturnGen

\* A generator of the handler of start yields self.wait("task").
YieldWait ==
    /\ frame.pc \in {"task", "send"}
    /\ gens[frame.task[IF frame.pc = "send" THEN 3 ELSE 2]].ev # 0
    /\ events[gens[frame.task[IF frame.pc = "send" THEN 3 ELSE 2]].ev].name = "start"
    /\ BodyYieldGen(WaitGen(1, "task", <<>>, -1))

NextWait ==
    \/ \E ev \in {StartL, TaskL} : UserFire(1, ev, 0)
    \/ UserTick(1)
    \/ \E task \in frame.taskTodo : TaskStep(task)
    \/ \E out \in YieldsW : TaskYield(out)
    \/ \E out \in YieldsW : SendYield(out)
    \/ YieldWait
    \/ TickFlush
    \/ FlushEnd
    \/ DispatchBegin
    \/ HandlerCall
    \/ HandlerCallInternal
    \/ ReturnW
    \/ DispatchEnd

SpecWait == InitWait /\ [][NextWait]_vars

\* The generators of wait that are suspended at their first yield and have
\* not been told that the event they observed is done.
Waiting == {g \in 1..Len(gens) :
               gens[g].kind = "wait" /\ gens[g].pc = "waiting" /\ ~gens[g].flag}

\* The generators that the tasks of the root of m step.
Stepped(M) == {task[2] : task \in M[1].tasks}

\* C26: while a generator waits, neither it nor the generator that yielded
\* it is in the task set; a waiting generator enters the task set only in
\* the step that invokes its done handler for the done event of the event
\* it observed; and when that done event is dispatched, the observed event
\* has had its handlers invoked and every generator they returned has ended.
C26_WaiterResumedByDone ==
    /\ [](\A g \in Waiting : Stepped(mgr) \cap {g, gens[g].parent} = {})
    /\ [][\A g \in Waiting :
             g \in Stepped(mgr') =>
                 /\ frame.pc = "handlers" /\ frame.todo # <<>>
                 /\ Head(frame.todo) = _on_done_handler(gens[g], g)
                 /\ events[frame.ev].cls = "done"
                 /\ gens[g].event # 0
                 /\ events[frame.ev].of = gens[g].event]_vars
    /\ [](\A i \in 1..Len(hist.log) :
             LET d == events[hist.log[i]]
             IN  d.cls = "done" => /\ events[d.of].dispatched
                                   /\ events[d.of].open = 0
                                   /\ events[d.of].waitingHandlers = 0)

\* A generator that waited for task has been resumed: the task event it
\* observed had a handler that returned a generator, which was stepped more
\* than once before it ended, and the generator of start was sent the value.
C26_Witness ==
    \E g \in 1..Len(gens) :
        /\ gens[g].kind = "wait" /\ gens[g].flag
        /\ gens[g].event # 0
        /\ \E x \in Invoked(gens[g].event) : x[2] = "gen"
        /\ \E w \in 1..Len(gens) :
               /\ gens[w].kind = "app" /\ gens[w].ev = gens[g].event
               /\ gens[w].pc = "dead"
        /\ frame.pc = "send"
        /\ frame.task[2] = g

(***************************************************************************)
(* SpecRemove: a component with a named handler, a catch-all handler on a  *)
(* concrete channel and a global catch-all handler on "*", each added with *)
(* addHandler.  The application removes handlers, fires and flushes.       *)
(***************************************************************************)
MaxFiresX == 2

Named == Handler(1, "app", {"foo"}, "*", 0, FALSE, 1, 0)
CatchAll == Handler(2, "app", {}, "a", 0, FALSE, 1, 0)
Global == Handler(3, "app", {}, "*", 0, FALSE, 1, 0)
HandlersX == {Named, CatchAll, Global}
FooX == AppEvent("foo", FALSE, FALSE, FALSE)

InitRemove ==
    LET S0 == [events |-> <<>>, gens |-> <<>>, mgr |-> InitMgr({}), blocked |-> FALSE]
        S1 == addHandler(addHandler(addHandler(S0, 1, Named), 1, CatchAll), 1, Global)
    IN  /\ events = <<>>
        /\ gens = <<>>
        /\ mgr = S1.mgr
        /\ frame = Idle
        /\ other = OtherIdle
        /\ hist = [log |-> <<>>, starts |-> <<>>, fires |-> MaxFiresX, gens |-> 0,
                   ticks |-> 0, removed |-> {}]

\* self.removeHandler(h) by the application, with no event argument.
RemoveCall(h) ==
    /\ frame.pc = "idle"
    /\ h \notin hist.removed
    /\ ~removeHandlerRaises(Cur, 1, h, FALSE, "")
    /\ Commit(removeHandler(Cur, 1, h, FALSE, ""))
    /\ hist' = [hist EXCEPT !.removed = @ \cup {h}]
    /\ UNCHANGED frame

NextRemove ==
    \/ \E h \in HandlersX : RemoveCall(h)
    \/ \E chan \in {"a", "b"} : UserFire(1, [FooX EXCEPT !.channels = <<chan>>], 0)
    \/ UserFlush(1)
    \/ FlushEnd
    \/ DispatchBegin
    \/ HandlerCall
    \/ HandlerReturn("None")
    \/ DispatchEnd

SpecRemove == InitRemove /\ [][NextRemove]_vars

\* C29: a handler that has been removed is in no bucket of the handler
\* table and not in the globals, it is not the handler that is running, and
\* the call that removes it sets the root's cache flag.
C29_RemovedEverywhere ==
    /\ [](\A h \in hist.removed :
             /\ \A p \in mgr[1].handlers : p[2] # h
             /\ h \notin mgr[1].globals
             /\ frame.pc = "body" => frame.h # h)
    /\ [][hist'.removed # hist.removed => mgr'[1].cache_needs_refresh]_vars

(***************************************************************************)
(* SpecTick: the manager is driven by the application's own tick() calls   *)
(* and then by run().  The handler of start is a generator function whose  *)
(* generator yields None or wait("task") until it ends; the handler of     *)
(* task returns a value.  Several tasks are registered at once, and a task *)
(* that waited is registered again while the others are being stepped.     *)
(***************************************************************************)
MaxFiresI == 3
MaxGensI == 3
MaxTicksI == 2

InitTick == InitWith(HandlersW, MaxFiresI, MaxGensI, MaxTicksI)

NextTick ==
    \/ \E ev \in {StartL, TaskL} : UserFire(1, ev, 0)
    \/ UserTick(1)
    \/ RunOnce
    \/ RunLoop
    \/ \E task \in frame.taskTodo : TaskStep(task)
    \/ \E out \in YieldsL : TaskYield(out)
    \/ \E out \in YieldsL : SendYield(out)
    \/ YieldWait
    \/ TickFlush
    \/ FlushEnd
    \/ DispatchBegin
    \/ HandlerCall
    \/ HandlerCallInternal
    \/ FallBackReturn
    \/ ReturnL
    \/ DispatchEnd

SpecTick == InitTick /\ [][NextTick]_vars

\* tick() is entered; the thread is in the task loop or inside a stepped
\* coroutine.
TickStart == frame.pc \in {"idle", "runloop"} /\ frame'.pc = "tasks"
Stepping == frame.pc \in {"tasks", "task", "send"}

\* The events fired by the step that are generate_events events.
Generated ==
    {e \in (Len(events) + 1)..Len(events') : events'[e].cls = "generate_events"}

\* C31: a tick owes one step to each task that is registered when it
\* starts; while it steps tasks nothing is dispatched, every step is the
\* step of one task still owed, which is then owed no more, and a task
\* registered meanwhile is not owed a step; the stepping ends only when no
\* step is owed; and a generate_events event is fired only by a tick of a
\* running manager, once its tasks have been stepped.
C31_TickStepsTasksFirst ==
    /\ [][TickStart => frame'.taskTodo = mgr[frame'.m].tasks]_vars
    /\ [][Stepping =>
            /\ hist'.log = hist.log
            /\ frame'.taskTodo \subseteq frame.taskTodo
            /\ frame'.taskTodo # frame.taskTodo <=>
                   \E task \in frame.taskTodo : TaskStep(task)
            /\ \A task \in frame.taskTodo :
                   TaskStep(task) => /\ frame'.taskTodo = frame.taskTodo \ {task}
                                     /\ frame'.task = task
            /\ frame'.pc \notin {"tasks", "task", "send"} => frame.taskTodo = {}]_vars
    /\ [][Generated # {} =>
            /\ frame.pc = "tasks" /\ frame.taskTodo = {}
            /\ mgr[frame.m].running
            /\ Cardinality(Generated) = 1]_vars

\* In a tick of a running manager a generator that waited has just been
\* sent its value and is registered again, while another task that was
\* registered when the tick started has yet to be stepped.
C31_Witness ==
    /\ frame.pc = "tasks"
    /\ mgr[frame.m].running
    /\ frame.taskTodo # {}
    /\ frame.task[3] # 0
    /\ gens[frame.task[2]].kind = "wait"
    /\ <<frame.task[1], frame.task[3], 0>> \in mgr[frame.m].tasks \ frame.taskTodo

(***************************************************************************)
(* SpecCount: the counters of an event.  start asks for complete and       *)
(* failure; its handler is a generator function whose generator may fire   *)
(* bar, yield None, wait("task") or call(task), yield a CallValue, end or  *)
(* raise.  The handler of task fires bar and returns a value or raises.    *)
(* The application fires start and task and calls tick().                  *)
(***************************************************************************)
MaxFiresN == 3
MaxGensN == 2

StartN == AppEvent("start", TRUE, FALSE, TRUE)
TaskN == AppEvent("task", FALSE, FALSE, FALSE)
ReturnsN == {"T", "raise"}
YieldsN == {"None", "CallValue", "StopIteration", "raise"}

InitCount == InitWith(HandlersW, MaxFiresN, MaxGensN, 0)

\* The handler of start returns its generator; the handler of task returns
\* a value or raises.
ReturnN ==
    /\ frame.pc = "body"
    /\ IF frame.h = Starter THEN HandlerReturnGen
       ELSE \E out \in ReturnsN : HandlerReturn(out)

\* A generator of the handler of start yields self.wait("task") or
\* self.call(task).
YieldNested ==
    /\ frame.pc \in {"task", "send"}
    /\ gens[frame.task[IF frame.pc = "send" THEN 3 ELSE 2]].ev # 0
    /\ events[gens[frame.task[IF frame.pc = "send" THEN 3 ELSE 2]].ev].name = "start"
    /\ \E G \in {WaitGen(1, "task", <<>>, -1), CallGen(1, TaskN, -1)} : BodyYieldGen(G)

NextCount ==
    \/ \E ev \in {StartN, TaskN} : UserFire(1, ev, 0)
    \/ UserTick(1)
    \/ \E task \in frame.taskTodo : TaskStep(task)
    \/ \E out \in YieldsN : TaskYield(out)
    \/ \E out \in YieldsN : SendYield(out)
    \/ YieldNested
    \/ BodyFire(Bar, 0)
    \/ TickFlush
    \/ FlushEnd
    \/ DispatchBegin
    \/ HandlerCall
    \/ HandlerCallInternal
    \/ ReturnN
    \/ DispatchEnd

SpecCount == InitCount /\ [][NextCount]_vars

\* C32: no event has a negative waitingHandlers, and no event with a cause
\* has negative effects.
C32_CountersNotNegative ==
    \A e \in 1..Len(events) :
        /\ events[e].waitingHandlers >= 0
        /\ events[e].cause # 0 => events[e].effects >= 0

\* The counters have gone up and come down again: an event that asked for
\* complete had a generator that yielded a wait or a call and was sent the
\* value, an event fired by its handler was counted among its effects and
\* has been dispatched, and now it waits for nothing and its complete event
\* has been fired; a handler or generator of another event raised.
C32_Witness ==
    \E e \in 1..Len(events) :
        /\ events[e].complete
        /\ events[e].waitingHandlers = 0
        /\ events[e].cause = 0
        /\ DerivedOf("complete", e) # {}
        /\ \E g \in 1..Len(gens) :
               /\ gens[g].kind \in {"wait", "call"}
               /\ gens[g].task_event = e
               /\ gens[g].pc \in {"yielded", "last", "dead"}
        /\ \E d \in 1..Len(events) : events[d].by = e /\ events[d].dispatched
        /\ \E x \in 1..Len(events) : events[x].raised > 0

(***************************************************************************)
(* SpecMulti: events fired on one or on two channels, and handlers of foo  *)
(* on channel "*", on channel "a" and on channel "b".  The application     *)
(* fires and flushes.                                                      *)
(***************************************************************************)
MaxFiresU == 2

OnStar == Handler(1, "app", {"foo"}, "*", 0, FALSE, 1, 0)
OnA == Handler(2, "app", {"foo"}, "a", 0, FALSE, 1, 0)
OnB == Handler(3, "app", {"foo"}, "b", 0, FALSE, 1, 0)
HandlersU == {OnStar, OnA, OnB}
FooU == AppEvent("foo", FALSE, FALSE, FALSE)
ChannelsU == {<<"a">>, <<"b">>, <<"a", "b">>, <<"*">>}

InitMulti == InitWith(HandlersU, MaxFiresU, 0, 0)

NextMulti ==
    \/ \E chans \in ChannelsU : UserFire(1, [FooU EXCEPT !.channels = chans], 0)
    \/ UserFlush(1)
    \/ FlushEnd
    \/ DispatchBegin
    \/ HandlerCall
    \/ HandlerReturn("None")
    \/ DispatchEnd

SpecMulti == InitMulti /\ [][NextMulti]_vars

\* C33: no handler is invoked twice for one event.
C33_InvokedAtMostOnce ==
    \A e \in 1..Len(events) :
        \A i, j \in 1..Len(events[e].inv) :
            i # j => events[e].inv[i][1] # events[e].inv[j][1]

(***************************************************************************)
(* SpecFlush: two threads call flush() on the same root.  _flush takes no  *)
(* lock, so the second thread's loop (manager.py 478-481) is taken apart   *)
(* into the steps between which the first thread may run: the test of      *)
(* _flush_batch, the read and the write of "self._flush_batch -= 1", the   *)
(* heappop, and the call of _dispatcher.  The handler of foo returns None; *)
(* the second thread's _dispatcher call is one step.  In this              *)
(* specification the variable other holds the second thread's position in  *)
(* _flush and its locals: the popped event, the value of _flush_batch it   *)
(* read, and old_flushing.                                                 *)
(***************************************************************************)
MaxFiresY == 2

HandlersY == {Handler(1, "app", {"foo"}, "*", 0, FALSE, 1, 0)}
FooY == AppEvent("foo", FALSE, FALSE, FALSE)

OtherOutside ==
    [pc |-> "idle", m |-> 0, ev |-> 0, batch |-> 0, old_flushing |-> NoThread]

InitFlush ==
    /\ events = <<>>
    /\ gens = <<>>
    /\ mgr = InitMgr(HandlersY)
    /\ frame = Idle
    /\ other = OtherOutside
    /\ hist = [log |-> <<>>, starts |-> <<>>, fires |-> MaxFiresY, gens |-> 0,
               ticks |-> 0]

\* _flush 473-477 in the second thread.
OtherFlushEnter(m) ==
    /\ other.pc = "idle"
    /\ LET r == mgr[m].root
       IN  CommitAs([Cur EXCEPT !.mgr[r].flushing_thread = get_ident(OtherThread),
                                !.mgr[r].flush_batch =
                                    IF @ = 0 THEN Len(mgr[r].queue) ELSE @],
                    [OtherOutside EXCEPT !.pc = "test", !.m = r,
                                         !.old_flushing = mgr[r].flushing_thread])
    /\ UNCHANGED <<frame, hist>>

\* 478: while self._flush_batch > 0; when it is not, the finally clause
\* (483) and the return.
OtherFlushTest ==
    /\ other.pc = "test"
    /\ IF mgr[other.m].flush_batch > 0
       THEN CommitAs(Cur, [other EXCEPT !.pc = "read"])
       ELSE CommitAs([Cur EXCEPT !.mgr[other.m].flushing_thread = other.old_flushing],
                     OtherOutside)
    /\ UNCHANGED <<frame, hist>>

\* 479: self._flush_batch -= 1 is a read of the attribute and, in a later
\* step, a write of the value read less one.
OtherFlushDecrement ==
    /\ \/ /\ other.pc = "read"
          /\ CommitAs(Cur, [other EXCEPT !.pc = "write",
                                         !.batch = mgr[other.m].flush_batch])
       \/ /\ other.pc = "write"
          /\ CommitAs([Cur EXCEPT !.mgr[other.m].flush_batch = other.batch - 1],
                      [other EXCEPT !.pc = "pop"])
    /\ UNCHANGED <<frame, hist>>

\* 480: heappop(self._queue), which raises IndexError on an empty queue;
\* the finally clause runs and the exception leaves flush().
OtherFlushPop ==
    /\ other.pc = "pop"
    /\ LET r == other.m
       IN  IF mgr[r].queue = <<>>
           THEN /\ CommitAs([Cur EXCEPT !.mgr[r].flushing_thread = other.old_flushing],
                            [other EXCEPT !.pc = "IndexError"])
                /\ UNCHANGED hist
           ELSE LET popped == heappop(mgr[r].queue)
                IN  /\ CommitAs([Cur EXCEPT !.mgr[r].queue = popped[2]],
                                [other EXCEPT !.pc = "dispatch", !.ev = popped[1][3]])
                    /\ hist' = [hist EXCEPT !.log = Append(@, popped[1][3])]
    /\ UNCHANGED frame

\* 481: self._dispatcher(event, channels, self._flush_batch) in the second
\* thread, every handler returning None.
OtherDispatch ==
    /\ other.pc = "dispatch"
    /\ LET r == other.m
           e == other.ev
       IN  \E ch \in CachedHandlers(Cur, r, e) :
               LET hs == ch[2]
                   S1 == [ch[1] EXCEPT
                             !.events[e].res = [i \in 1..Len(hs) |-> hs[i].id],
                             !.events[e].handler =
                                 IF hs = <<>> THEN @ ELSE hs[Len(hs)].id,
                             !.events[e].inv =
                                 @ \o [i \in 1..Len(hs) |-> <<hs[i], "None">>],
                             !.events[e].dispatched = TRUE,
                             !.mgr[r].currently_handling = 0]
               IN  CommitAs(_eventDone(S1, r, e, FALSE, OtherThread),
                            [other EXCEPT !.pc = "test", !.ev = 0])
    /\ UNCHANGED <<frame, hist>>

NextFlush ==
    \/ UserFire(1, FooY, 0)
    \/ UserFlush(1)
    \/ FlushEnd
    \/ DispatchBegin
    \/ HandlerCall
    \/ HandlerReturn("None")
    \/ DispatchEnd
    \/ OtherFlushEnter(1)
    \/ OtherFlushTest
    \/ OtherFlushDecrement
    \/ OtherFlushPop
    \/ OtherDispatch

SpecFlush == InitFlush /\ [][NextFlush]_vars

\* C34: _flush_batch is never more than the number of events in the queue,
\* and no thread pops from an empty queue.
C34_BatchWithinQueue ==
    /\ \A r \in Managers : mgr[r].flush_batch <= Len(mgr[r].queue)
    /\ other.pc # "IndexError"

====
